---- MODULE Spec2Model ----
(***************************************************************************)
(* A model of the chunk tool (stream-ai/chunk): the line-based chunkers    *)
(* (shell, Dockerfile, generic), the chunk identity function, the chunker  *)
(* registry and the two-phase pipeline of processDirectory.                *)
(*                                                                         *)
(* A Go string / []byte is a sequence of one-character strings, so that    *)
(* splitting, joining, trimming and pattern matching are computed the way  *)
(* the code computes them.                                                 *)
(***************************************************************************)
EXTENDS Integers, Sequences, FiniteSets, TLC

VARIABLES run, symbolTable, first, ids, registry, found, walk

vars == <<run, symbolTable, first, ids, registry, found, walk>>

(***************************************************************************)
(* Bounds of the model.                                                    *)
(***************************************************************************)
MaxLines == 4
MaxM == 3
MaxPathLen == 2
MaxRegistered == 3

(***************************************************************************)
(* Characters and Go's strings package.                                    *)
(***************************************************************************)
NL == "\n"

LowerLetters ==
  <<"a","b","c","d","e","f","g","h","i","j","k","l","m",
    "n","o","p","q","r","s","t","u","v","w","x","y","z">>

UpperLetters ==
  <<"A","B","C","D","E","F","G","H","I","J","K","L","M",
    "N","O","P","Q","R","S","T","U","V","W","X","Y","Z">>

Digits == {"0","1","2","3","4","5","6","7","8","9"}

\* regexp \w
IsWord(c) ==
  \/ \E k \in 1..26 : c = LowerLetters[k] \/ c = UpperLetters[k]
  \/ c \in Digits
  \/ c = "_"

\* regexp \s: [\t\n\f\r ]
IsSpace(c) == c \in {" ", "\t", "\n", "\r", "\f"}

\* the vertical tab U+000B, next line U+0085 and no-break space U+00A0
VT == ""

NEL == ""

NBSP == " "

\* unicode.IsSpace on the characters a string of the module can hold (up to
\* U+00FF): '\t', '\n', '\v', '\f', '\r', ' ', U+0085 and U+00A0
UnicodeIsSpace(c) == c \in {" ", "\t", "\n", VT, "\f", "\r", NEL, NBSP}

\* the letters of U+00E0 to U+00FE and, at the same places, their upper cases
\* of U+00C0 to U+00DE
Latin1Lower ==
  <<"à","á","â","ã","ä","å","æ","ç","è","é","ê","ë","ì","í","î",
    "ï","ð","ñ","ò","ó","ô","õ","ö","ø","ù","ú","û","ü","ý","þ">>

Latin1Upper ==
  <<"À","Á","Â","Ã","Ä","Å","Æ","Ç","È","É","Ê","Ë","Ì","Í","Î",
    "Ï","Ð","Ñ","Ò","Ó","Ô","Õ","Ö","Ø","Ù","Ú","Û","Ü","Ý","Þ">>

\* A string of the module holds the characters up to U+00FF.  The three
\* characters beyond them that ToUpper and ToLower give on such a string
\* are written by their code points: U+0178 is the upper case of U+00FF,
\* U+039C the upper case of the micro sign U+00B5, and U+03BC the lower
\* case of U+039C.
CapitalYDiaeresis == "U+0178"

CapitalMu == "U+039C"

SmallMu == "U+03BC"

\* the control characters U+0080 to U+009F
C1Controls ==
  {"","","","","","","","","","","","","","","","",
   "","","","","","","","","","","","","","","",""}

\* U+00A0 to U+00BF, U+00D7, U+00DF, U+00F7 and U+00FF
Latin1Others ==
  {" ","¡","¢","£","¤","¥","¦","§","¨","©","ª","«","¬","­","®","¯","°","±",
   "²","³","´","µ","¶","·","¸","¹","º","»","¼","½","¾","¿","×","ß","÷","ÿ"}

\* the characters of two bytes in UTF-8; the others of a string are of one
TwoByteChars ==
  C1Controls \cup Latin1Others \cup {Latin1Lower[k] : k \in 1..30}
    \cup {Latin1Upper[k] : k \in 1..30} \cup {CapitalYDiaeresis, CapitalMu, SmallMu}

\* len(s) of a Go string: its bytes
ByteLen(s) == Len(s) + Cardinality({k \in 1..Len(s) : s[k] \in TwoByteChars})

\* unicode.ToUpper
ToUpperChar(c) ==
  IF \E k \in 1..26 : c = LowerLetters[k]
  THEN UpperLetters[CHOOSE k \in 1..26 : c = LowerLetters[k]]
  ELSE IF c \notin TwoByteChars THEN c
  ELSE IF \E k \in 1..30 : c = Latin1Lower[k]
  THEN Latin1Upper[CHOOSE k \in 1..30 : c = Latin1Lower[k]]
  ELSE IF c = "ÿ" THEN CapitalYDiaeresis
  ELSE IF c = "µ" \/ c = SmallMu THEN CapitalMu
  ELSE c

\* unicode.ToLower
ToLowerChar(c) ==
  IF \E k \in 1..26 : c = UpperLetters[k]
  THEN LowerLetters[CHOOSE k \in 1..26 : c = UpperLetters[k]]
  ELSE IF c \notin TwoByteChars THEN c
  ELSE IF \E k \in 1..30 : c = Latin1Upper[k]
  THEN Latin1Lower[CHOOSE k \in 1..30 : c = Latin1Upper[k]]
  ELSE IF c = CapitalYDiaeresis THEN "ÿ"
  ELSE IF c = CapitalMu THEN SmallMu
  ELSE c

ToUpper(s) == [k \in 1..Len(s) |-> ToUpperChar(s[k])]

ToLower(s) == [k \in 1..Len(s) |-> ToLowerChar(s[k])]

SetMin(S) == CHOOSE x \in S : \A y \in S : x <= y

SetMax(S) == CHOOSE x \in S : \A y \in S : x >= y

\* s[i..] starts with p (1-based i)
HasPrefixAt(s, i, p) ==
  /\ i >= 1
  /\ i + Len(p) - 1 <= Len(s)
  /\ \A k \in 1..Len(p) : s[i + k - 1] = p[k]

HasPrefix(s, p) == HasPrefixAt(s, 1, p)

HasSuffix(s, p) == Len(s) >= Len(p) /\ HasPrefixAt(s, Len(s) - Len(p) + 1, p)

Contains(s, p) == \E i \in 1..(Len(s) + 1) : HasPrefixAt(s, i, p)

\* strings.TrimSpace, bytes.TrimSpace
TrimSpace(s) ==
  LET keep == {k \in 1..Len(s) : ~UnicodeIsSpace(s[k])}
  IN IF keep = {} THEN <<>> ELSE SubSeq(s, SetMin(keep), SetMax(keep))

\* bytes.Split(content, sep) for a one-byte separator: n separators give n+1 pieces
RECURSIVE SplitFrom(_, _, _)
SplitFrom(s, sep, i) ==
  LET hits == {k \in i..Len(s) : s[k] = sep}
  IN IF hits = {} THEN <<SubSeq(s, i, Len(s))>>
     ELSE LET k == SetMin(hits)
          IN <<SubSeq(s, i, k - 1)>> \o SplitFrom(s, sep, k + 1)

Split(s, sep) == SplitFrom(s, sep, 1)

\* bytes.Join(lines, sep)
RECURSIVE Join(_, _)
Join(ls, sep) ==
  IF Len(ls) = 0 THEN <<>>
  ELSE IF Len(ls) = 1 THEN ls[1]
  ELSE ls[1] \o <<sep>> \o Join(Tail(ls), sep)

\* the list without the later occurrences of its elements
RECURSIVE Dedup(_)
Dedup(q) ==
  IF Len(q) = 0 THEN <<>>
  ELSE LET front == Dedup(SubSeq(q, 1, Len(q) - 1))
           last == q[Len(q)]
       IN IF \E k \in 1..Len(front) : front[k] = last THEN front
          ELSE Append(front, last)

SeqToSet(q) == {q[k] : k \in 1..Len(q)}

\* every order in which Go's range over a map with key set S may yield the keys
MapOrders(S) ==
  {q \in [1..Cardinality(S) -> S] : \A a, b \in 1..Cardinality(S) : a # b => q[a] # q[b]}

(***************************************************************************)
(* The regular expressions of the chunkers (Go's regexp).  A pattern is    *)
(* the sequence of its items.  In every pattern of the program a           *)
(* repetition is followed by an item outside its character class, so the   *)
(* leftmost-first match takes the longest run; the alternatives of a group *)
(* are tried in the order written.                                         *)
(***************************************************************************)
\* a literal
Lit(v) == [t |-> "lit", v |-> v, cls |-> "", min |-> 0, cap |-> FALSE]

\* a literal under (?i), written in upper case
FoldLit(v) == [t |-> "fold", v |-> v, cls |-> "", min |-> 0, cap |-> FALSE]

\* (a|b|...); cap marks the group the code reads from the match
Alt(vs, cap) == [t |-> "alt", v |-> vs, cls |-> "", min |-> 0, cap |-> cap]

\* \s* \s+ \w+ \S+: at least min characters of class "s", "w" or "S"
Rep(cls, min, cap) == [t |-> "rep", v |-> <<>>, cls |-> cls, min |-> min, cap |-> cap]

\* ^ without (?m)
BeginText == [t |-> "bot", v |-> <<>>, cls |-> "", min |-> 0, cap |-> FALSE]

\* ^ under (?m)
BeginLine == [t |-> "bol", v |-> <<>>, cls |-> "", min |-> 0, cap |-> FALSE]

\* \b
WordBoundary == [t |-> "b", v |-> <<>>, cls |-> "", min |-> 0, cap |-> FALSE]

InClass(cls, c) ==
  CASE cls = "s" -> IsSpace(c)
    [] cls = "w" -> IsWord(c)
    [] cls = "S" -> ~IsSpace(c)

\* the first position from i on that is past the end or outside the class
Skip(cls, s, i) ==
  LET stop == {k \in i..Len(s) : ~InClass(cls, s[k])}
  IN IF stop = {} THEN Len(s) + 1 ELSE SetMin(stop)

IsWordAt(s, i) == i >= 1 /\ i <= Len(s) /\ IsWord(s[i])

\* end is the position after the match, 0 when there is none
NoMatch == [end |-> 0, cap |-> <<>>]

FirstOf(m, otherwise) == IF m.end > 0 THEN m ELSE otherwise

RECURSIVE MatchFrom(_, _, _, _, _)
RECURSIVE MatchAlt(_, _, _, _, _, _)
\* a repetition that ran from i to j
MatchRep(re, k, s, i, j, cap) ==
  IF j - i >= re[k].min
  THEN MatchFrom(re, k + 1, s, j, IF re[k].cap THEN SubSeq(s, i, j - 1) ELSE cap)
  ELSE NoMatch

\* the alternatives a.. of the group re[k], in order
MatchAlt(re, k, a, s, i, cap) ==
  IF a > Len(re[k].v) THEN NoMatch
  ELSE IF HasPrefixAt(s, i, re[k].v[a])
  THEN FirstOf(MatchFrom(re, k + 1, s, i + Len(re[k].v[a]),
                         IF re[k].cap THEN re[k].v[a] ELSE cap),
               MatchAlt(re, k, a + 1, s, i, cap))
  ELSE MatchAlt(re, k, a + 1, s, i, cap)

MatchItem(re, k, s, i, cap) ==
  CASE re[k].t = "lit" ->
         IF HasPrefixAt(s, i, re[k].v)
         THEN MatchFrom(re, k + 1, s, i + Len(re[k].v), cap) ELSE NoMatch
    [] re[k].t = "fold" ->
         IF HasPrefixAt(ToUpper(s), i, re[k].v)
         THEN MatchFrom(re, k + 1, s, i + Len(re[k].v), cap) ELSE NoMatch
    [] re[k].t = "alt" -> MatchAlt(re, k, 1, s, i, cap)
    [] re[k].t = "rep" -> MatchRep(re, k, s, i, Skip(re[k].cls, s, i), cap)
    [] re[k].t = "bot" ->
         IF i = 1 THEN MatchFrom(re, k + 1, s, i, cap) ELSE NoMatch
    [] re[k].t = "bol" ->
         IF i = 1 \/ s[i - 1] = NL THEN MatchFrom(re, k + 1, s, i, cap) ELSE NoMatch
    [] re[k].t = "b" ->
         IF IsWordAt(s, i) # IsWordAt(s, i - 1)
         THEN MatchFrom(re, k + 1, s, i, cap) ELSE NoMatch

\* the items k.. of re matched at position i of s
MatchFrom(re, k, s, i, cap) ==
  IF k > Len(re) THEN [end |-> i, cap |-> cap] ELSE MatchItem(re, k, s, i, cap)

MatchAt(re, s, i) == MatchFrom(re, 1, s, i, <<>>)

\* regexp.MatchString
MatchString(re, s) == \E i \in 1..(Len(s) + 1) : MatchAt(re, s, i).end > 0

RECURSIVE FindAll(_, _, _)
\* the search goes on after a match m at i, or at the next position
FindAllAfter(re, s, i, m) ==
  IF m.end > 0 THEN <<m.cap>> \o FindAll(re, s, m.end) ELSE FindAll(re, s, i + 1)

\* regexp.FindAllStringSubmatch(content, -1): the group read by the code in
\* each of the successive non-overlapping leftmost matches from i on
FindAll(re, s, i) ==
  IF i > Len(s) THEN <<>> ELSE FindAllAfter(re, s, i, MatchAt(re, s, i))

KwFunction == <<"f","u","n","c","t","i","o","n">>


(***************************************************************************)
(* Chunk identity (pkg/util/idgen.go).  SHA-256 is taken to be injective:  *)
(* a digest is represented by the bytes that were hashed.                  *)
(***************************************************************************)
\* the bytes a hasher has received after hasher.Write(input) for each input
RECURSIVE HasherWrite(_)
HasherWrite(inputs) ==
  IF Len(inputs) = 0 THEN <<>> ELSE inputs[1] \o HasherWrite(Tail(inputs))

Sha256Sum(bytes) == [sha256 |-> bytes]

HexEncodeToString(digest) == [hex |-> digest]

GenerateID(inputs) == HexEncodeToString(Sha256Sum(HasherWrite(inputs)))

EstimateTokenCount(content) == ByteLen(content) \div 4

(***************************************************************************)
(* The symbol table (internal/model/symbol.go).  A Go map is a function    *)
(* whose domain is the set of keys present; a missing key reads as the nil *)
(* slice.                                                                  *)
(***************************************************************************)
EmptyMap == [k \in {} |-> <<>>]

MapGet(m, k) == IF k \in DOMAIN m THEN m[k] ELSE <<>>

MapPut(m, k, v) == [x \in (DOMAIN m) \cup {k} |-> IF x = k THEN v ELSE m[x]]

NewSymbolTable == [Definitions |-> EmptyMap, References |-> EmptyMap, Chunks |-> EmptyMap]

AddDefinition(st, name, def) ==
  [st EXCEPT !.Definitions = MapPut(@, name, Append(MapGet(@, name), def))]

AddReference(st, name, ref) ==
  [st EXCEPT !.References = MapPut(@, name, Append(MapGet(@, name), ref))]

\* AddChunk storing the chunk under the ID of its content alone
AddChunkByContent(st, chunk) ==
  [st EXCEPT !.Chunks = MapPut(@, GenerateID(<<chunk.Content>>), chunk)]

AddChunk(st, chunk) == [st EXCEPT !.Chunks = MapPut(@, chunk.ID, chunk)]

Chunk(id, filePath, startLine, endLine, content, language, symbols, imports) ==
  [ID |-> id, FilePath |-> filePath, StartLine |-> startLine, EndLine |-> endLine,
   Content |-> content, Language |-> language, Framework |-> <<>>,
   Symbols |-> symbols, Imports |-> imports, RelatedChunks |-> <<>>,
   TokenCount |-> EstimateTokenCount(content)]

SymbolDefinition(name, chunk, type) ==
  [Name |-> name, ChunkID |-> chunk.ID, FilePath |-> chunk.FilePath,
   StartLine |-> chunk.StartLine, EndLine |-> chunk.EndLine, Type |-> type]

\* the loop "for _, symbol := range symbols { symbolTable.AddDefinition(...) }"
RECURSIVE AddDefinitions(_, _, _, _)
AddDefinitions(st, symbols, chunk, type) ==
  IF Len(symbols) = 0 THEN st
  ELSE AddDefinitions(AddDefinition(st, symbols[1], SymbolDefinition(symbols[1], chunk, type)),
                      Tail(symbols), chunk, type)

(***************************************************************************)
(* The shell chunker (internal/chunker/shell.go).                          *)
(***************************************************************************)
\* shell.go 134: ^\s*\w+\s*\(\s*\)\s*\{
funcPattern ==
  <<BeginText, Rep("s", 0, FALSE), Rep("w", 1, FALSE), Rep("s", 0, FALSE), Lit(<<"(">>),
    Rep("s", 0, FALSE), Lit(<<")">>), Rep("s", 0, FALSE), Lit(<<"{">>)>>

isFunctionStart(line) ==
  \/ /\ HasPrefix(line, KwFunction \o <<" ">>)
     /\ (Contains(line, <<"(", ")">>) \/ HasSuffix(line, <<"{">>))
  \/ MatchString(funcPattern, line)

isFunctionEnd(trimmedLine) ==
  trimmedLine = <<"}">> \/ HasPrefix(trimmedLine, <<"}", " ", "#">>)

\* shell.go 143: function\s+(\w+)\s*\(\s*\)
funcPattern1 ==
  <<Lit(KwFunction), Rep("s", 1, FALSE), Rep("w", 1, TRUE), Rep("s", 0, FALSE),
    Lit(<<"(">>), Rep("s", 0, FALSE), Lit(<<")">>)>>

\* shell.go 144: function\s+(\w+)\s*\{
funcPattern2 ==
  <<Lit(KwFunction), Rep("s", 1, FALSE), Rep("w", 1, TRUE), Rep("s", 0, FALSE),
    Lit(<<"{">>)>>

\* shell.go 145: \b(\w+)\s*\(\s*\)\s*\{
funcPattern3 ==
  <<WordBoundary, Rep("w", 1, TRUE), Rep("s", 0, FALSE), Lit(<<"(">>),
    Rep("s", 0, FALSE), Lit(<<")">>), Rep("s", 0, FALSE), Lit(<<"{">>)>>

(***************************************************************************)
(* The patterns of the Dockerfile chunker and of the generic chunker.      *)
(***************************************************************************)
\* dockerfile.go 122-127
majorInstructions ==
  <<<<"F","R","O","M">>,
    <<"M","A","I","N","T","A","I","N","E","R">>,
    <<"R","U","N">>,
    <<"C","M","D">>,
    <<"L","A","B","E","L">>,
    <<"E","X","P","O","S","E">>,
    <<"E","N","V">>,
    <<"A","D","D">>,
    <<"C","O","P","Y">>,
    <<"E","N","T","R","Y","P","O","I","N","T">>,
    <<"V","O","L","U","M","E">>,
    <<"U","S","E","R">>,
    <<"W","O","R","K","D","I","R">>,
    <<"A","R","G">>,
    <<"O","N","B","U","I","L","D">>,
    <<"S","T","O","P","S","I","G","N","A","L">>,
    <<"H","E","A","L","T","H","C","H","E","C","K">>,
    <<"S","H","E","L","L">>>>

\* the alternatives of instructionPattern, dockerfile.go 150 (no MAINTAINER)
instructionKeywords ==
  <<<<"F","R","O","M">>,
    <<"R","U","N">>,
    <<"C","M","D">>,
    <<"L","A","B","E","L">>,
    <<"E","X","P","O","S","E">>,
    <<"E","N","V">>,
    <<"A","D","D">>,
    <<"C","O","P","Y">>,
    <<"E","N","T","R","Y","P","O","I","N","T">>,
    <<"V","O","L","U","M","E">>,
    <<"U","S","E","R">>,
    <<"W","O","R","K","D","I","R">>,
    <<"A","R","G">>,
    <<"O","N","B","U","I","L","D">>,
    <<"S","T","O","P","S","I","G","N","A","L">>,
    <<"H","E","A","L","T","H","C","H","E","C","K">>,
    <<"S","H","E","L","L">>>>

\* the alternatives of funcRegex, generic chunker
genericKeywords ==
  <<<<"f","u","n","c","t","i","o","n">>,
    <<"f","u","n","c">>,
    <<"d","e","f">>,
    <<"m","e","t","h","o","d">>,
    <<"v","o","i","d">>,
    <<"i","n","t">>,
    <<"s","t","r","i","n","g">>,
    <<"b","o","o","l">>,
    <<"c","l","a","s","s">>,
    <<"s","t","r","u","c","t">>,
    <<"i","n","t","e","r","f","a","c","e">>>>

KwFrom == <<"F","R","O","M">>

KwAs == <<"A","S">>

StagePrefix == <<"s","t","a","g","e",":">>

\* dockerfile.go 150: (?m)^(FROM|RUN|...)\s+
instructionPattern == <<BeginLine, Alt(instructionKeywords, TRUE), Rep("s", 1, FALSE)>>

\* dockerfile.go 158: (?i)FROM\s+\S+\s+AS\s+(\S+)
stagePattern ==
  <<FoldLit(KwFrom), Rep("s", 1, FALSE), Rep("S", 1, FALSE), Rep("s", 1, FALSE),
    FoldLit(KwAs), Rep("s", 1, FALSE), Rep("S", 1, TRUE)>>

\* generic chunker 96: (function|func|def|...)\s+(\w+), read through match[2]
funcRegex == <<Alt(genericKeywords, FALSE), Rep("s", 1, FALSE), Rep("w", 1, TRUE)>>

\* The unique function names of a chunk, listed by first match.  The code
\* returns them in the iteration order of a map: any order of this list.
extractFunctions(content) ==
  Dedup(FindAll(funcPattern1, content, 1) \o FindAll(funcPattern2, content, 1)
        \o FindAll(funcPattern3, content, 1))

LangShell == <<"s","h","e","l","l">>

\* createChunk joining the lines without the space around them
ShellCreateChunkTrimmed(filePath, lines, startLine, endLine) ==
  LET content == Join([k \in 1..Len(lines) |-> TrimSpace(lines[k])], NL)
  IN Chunk(GenerateID(<<filePath, content>>), filePath, startLine, endLine,
           content, LangShell, extractFunctions(content), <<>>)

ShellCreateChunk(filePath, lines, startLine, endLine) ==
  LET content == Join(lines, NL)
  IN Chunk(GenerateID(<<filePath, content>>), filePath, startLine, endLine,
           content, LangShell, extractFunctions(content), <<>>)

\* chunk := c.createChunk(...); chunks = append(chunks, chunk); currentChunk = [][]byte{}
ShellFlush(s, filePath, endLine) ==
  LET chunk == ShellCreateChunk(filePath, s.currentChunk, s.startLine, endLine)
  IN [s EXCEPT !.chunks = Append(@, chunk),
               !.table = AddDefinitions(@, chunk.Symbols, chunk, "function"),
               !.currentChunk = <<>>]

\* ShellOpenFunction opening a function also inside a function
ShellOpenFunctionNested(s, filePath, trimmedLine, i) ==
  IF isFunctionStart(trimmedLine)
  THEN [(IF Len(s.currentChunk) > 0 THEN ShellFlush(s, filePath, i) ELSE s)
          EXCEPT !.inFunction = TRUE, !.startLine = i + 1]
  ELSE s

\* shell.go 45-55: a function definition read outside a function
ShellOpenFunction(s, filePath, trimmedLine, i) ==
  IF isFunctionStart(trimmedLine) /\ ~s.inFunction
  THEN [(IF Len(s.currentChunk) > 0 THEN ShellFlush(s, filePath, i) ELSE s)
          EXCEPT !.inFunction = TRUE, !.startLine = i + 1]
  ELSE s

\* ShellCloseFunction with the next block starting on the closing line
ShellCloseFunctionSameLine(s, filePath, line, i) ==
  [ShellFlush([s EXCEPT !.currentChunk = Append(@, line)], filePath, i + 1)
     EXCEPT !.inFunction = FALSE, !.startLine = i + 1]

\* shell.go 58-66: the end of a function closes the chunk with this line
ShellCloseFunction(s, filePath, line, i) ==
  [ShellFlush([s EXCEPT !.currentChunk = Append(@, line)], filePath, i + 1)
     EXCEPT !.inFunction = FALSE, !.startLine = i + 2]

\* ShellAppend flushing only when the block exceeds MaxChunkSize
ShellAppendOver(s, filePath, line, i, options) ==
  LET s1 == [s EXCEPT !.currentChunk = Append(@, line)]
  IN IF ~s1.inFunction /\ Len(s1.currentChunk) > options.MaxChunkSize
     THEN [ShellFlush(s1, filePath, i + 1) EXCEPT !.startLine = i + 2]
     ELSE s1

\* shell.go 68-77: the line joins the pending block, which is flushed at MaxChunkSize
ShellAppend(s, filePath, line, i, options) ==
  LET s1 == [s EXCEPT !.currentChunk = Append(@, line)]
  IN IF ~s1.inFunction /\ Len(s1.currentChunk) >= options.MaxChunkSize
     THEN [ShellFlush(s1, filePath, i + 1) EXCEPT !.startLine = i + 2]
     ELSE s1

\* ShellIter without the flush at MaxChunkSize
ShellIterUncapped(s, filePath, line, i, options) ==
  LET trimmedLine == TrimSpace(line)
      s1 == ShellOpenFunction(s, filePath, trimmedLine, i)
  IN IF s1.inFunction /\ isFunctionEnd(trimmedLine)
     THEN ShellCloseFunction(s1, filePath, line, i)
     ELSE [s1 EXCEPT !.currentChunk = Append(@, line)]

\* one iteration of "for i, line := range lines" (i counts from 0)
ShellIter(s, filePath, line, i, options) ==
  LET trimmedLine == TrimSpace(line)
      s1 == ShellOpenFunction(s, filePath, trimmedLine, i)
  IN IF s1.inFunction /\ isFunctionEnd(trimmedLine)
     THEN ShellCloseFunction(s1, filePath, line, i)
     ELSE ShellAppend(s1, filePath, line, i, options)

\* shell.go 81-84: the remaining lines
ShellRest(s, filePath, nLines) ==
  IF Len(s.currentChunk) > 0 THEN ShellFlush(s, filePath, nLines) ELSE s

\* the locals of Chunk before the loop
LoopStart(table) ==
  [currentChunk |-> <<>>, startLine |-> 1, inFunction |-> FALSE,
   chunks |-> <<>>, table |-> table]

RECURSIVE ShellLoop(_, _, _, _, _)
ShellLoop(s, filePath, lines, i, options) ==
  IF i >= Len(lines) THEN s
  ELSE ShellLoop(ShellIter(s, filePath, lines[i + 1], i, options),
                 filePath, lines, i + 1, options)

\* ShellChunker.Chunk: the chunks and the symbol table it leaves
ShellChunk(filePath, content, table, options) ==
  LET lines == Split(content, NL)
  IN ShellRest(ShellLoop(LoopStart(table), filePath, lines, 0, options),
               filePath, Len(lines))

(***************************************************************************)
(* The Dockerfile chunker (internal/chunker/dockerfile.go).                *)
(***************************************************************************)
isChunkBoundary(line) ==
  /\ line # <<>>
  /\ \/ \E k \in 1..Len(majorInstructions) :
          HasPrefix(ToUpper(line), majorInstructions[k] \o <<" ">>)
     \/ /\ HasPrefix(ToUpper(line), KwFrom \o <<" ">>)
        /\ Contains(ToUpper(line), <<" ">> \o KwAs \o <<" ">>)

\* "stage:" + match[1] for every stage match
StageSymbols(caps) == [k \in 1..Len(caps) |-> StagePrefix \o caps[k]]

\* The unique instruction keywords and stage names of a chunk, listed by first
\* match.  The code returns them in the iteration order of a map.
extractInstructions(content) ==
  Dedup(FindAll(instructionPattern, content, 1) \o StageSymbols(FindAll(stagePattern, content, 1)))

LangDockerfile == <<"d","o","c","k","e","r","f","i","l","e">>

DockerCreateChunk(filePath, lines, startLine, endLine) ==
  LET content == Join(lines, NL)
  IN Chunk(GenerateID(<<filePath, content>>), filePath, startLine, endLine,
           content, LangDockerfile, extractInstructions(content), <<>>)

DockerFlush(s, filePath, endLine) ==
  LET chunk == DockerCreateChunk(filePath, s.currentChunk, s.startLine, endLine)
  IN [s EXCEPT !.chunks = Append(@, chunk),
               !.table = AddDefinitions(@, chunk.Symbols, chunk, "instruction"),
               !.currentChunk = <<>>]

\* dockerfile.go 43-46: a blank or comment line opens a pending block
DockerLeading(s, trimmedLine) ==
  Len(s.currentChunk) = 0 /\ (trimmedLine = <<>> \/ HasPrefix(trimmedLine, <<"#">>))

\* DockerBoundary with the next block starting one line late
DockerBoundaryLate(s, filePath, trimmedLine, i) ==
  IF isChunkBoundary(trimmedLine) /\ Len(s.currentChunk) > 0
  THEN [DockerFlush(s, filePath, i) EXCEPT !.startLine = i + 2]
  ELSE s

\* dockerfile.go 51-56: an instruction line closes the pending block before it
DockerBoundary(s, filePath, trimmedLine, i) ==
  IF isChunkBoundary(trimmedLine) /\ Len(s.currentChunk) > 0
  THEN [DockerFlush(s, filePath, i) EXCEPT !.startLine = i + 1]
  ELSE s

\* dockerfile.go 58-69: the line joins the pending block, flushed at MaxChunkSize
DockerAppend(s, filePath, line, i, options) ==
  LET s1 == [s EXCEPT !.currentChunk = Append(@, line)]
  IN IF Len(s1.currentChunk) >= options.MaxChunkSize
     THEN [DockerFlush(s1, filePath, i + 1) EXCEPT !.startLine = i + 2]
     ELSE s1

\* DockerIter without the boundary before an instruction line
DockerIterUnsplit(s, filePath, line, i, options) ==
  LET trimmedLine == TrimSpace(line)
  IN IF DockerLeading(s, trimmedLine)
     THEN [s EXCEPT !.currentChunk = Append(@, line)]
     ELSE DockerAppend(s, filePath, line, i, options)

\* one iteration of "for i, line := range lines" (i counts from 0)
DockerIter(s, filePath, line, i, options) ==
  LET trimmedLine == TrimSpace(line)
  IN IF DockerLeading(s, trimmedLine)
     THEN [s EXCEPT !.currentChunk = Append(@, line)]
     ELSE DockerAppend(DockerBoundary(s, filePath, trimmedLine, i), filePath, line, i, options)

\* dockerfile.go 73-76: the remaining lines
DockerRest(s, filePath, nLines) ==
  IF Len(s.currentChunk) > 0 THEN DockerFlush(s, filePath, nLines) ELSE s

RECURSIVE DockerLoop(_, _, _, _, _)
DockerLoop(s, filePath, lines, i, options) ==
  IF i >= Len(lines) THEN s
  ELSE DockerLoop(DockerIter(s, filePath, lines[i + 1], i, options),
                  filePath, lines, i + 1, options)

\* DockerfileChunker.Chunk
DockerChunk(filePath, content, table, options) ==
  LET lines == Split(content, NL)
  IN DockerRest(DockerLoop(LoopStart(table), filePath, lines, 0, options),
                filePath, Len(lines))

(***************************************************************************)
(* The generic chunker (internal/chunker/generic.go).                      *)
(***************************************************************************)
\* filepath.Ext: the suffix from the last dot of the last path element
Ext(path) ==
  LET dots == {k \in 1..Len(path) :
                 path[k] = "." /\ \A j \in k..Len(path) : path[j] # "/"}
  IN IF dots = {} THEN <<>> ELSE SubSeq(path, SetMax(dots), Len(path))

\* generic chunker 37-40
GenericLanguage(filePath) ==
  LET language == Ext(filePath)
  IN IF language # <<>> /\ language[1] = "." THEN Tail(language) ELSE language

\* The unique symbols of a window, listed by first match.  The code returns
\* them in the iteration order of a map.
extractGenericSymbols(content) == Dedup(FindAll(funcRegex, content, 1))

\* GenericIter with StartLine counted from 0
GenericIterZeroBased(s, filePath, lines, i, options) ==
  LET end == IF i + options.MaxChunkSize > Len(lines) THEN Len(lines)
             ELSE i + options.MaxChunkSize
      chunkContent == Join(SubSeq(lines, i + 1, end), NL)
      chunk == Chunk(GenerateID(<<filePath, chunkContent>>), filePath, i, end,
                     chunkContent, GenericLanguage(filePath),
                     extractGenericSymbols(chunkContent), <<>>)
  IN [s EXCEPT !.chunks = Append(@, chunk),
               !.table = AddDefinitions(@, chunk.Symbols, chunk, "generic")]

\* the body of "for i := 0; i < len(lines); i += options.MaxChunkSize"
GenericIter(s, filePath, lines, i, options) ==
  LET end == IF i + options.MaxChunkSize > Len(lines) THEN Len(lines)
             ELSE i + options.MaxChunkSize
      chunkContent == Join(SubSeq(lines, i + 1, end), NL)
      chunk == Chunk(GenerateID(<<filePath, chunkContent>>), filePath, i + 1, end,
                     chunkContent, GenericLanguage(filePath),
                     extractGenericSymbols(chunkContent), <<>>)
  IN [s EXCEPT !.chunks = Append(@, chunk),
               !.table = AddDefinitions(@, chunk.Symbols, chunk, "generic")]

RECURSIVE GenericLoop(_, _, _, _, _)
GenericLoop(s, filePath, lines, i, options) ==
  IF i >= Len(lines) THEN s
  ELSE GenericLoop(GenericIter(s, filePath, lines, i, options),
                   filePath, lines, i + options.MaxChunkSize, options)

\* GenericChunker.Chunk, for MaxChunkSize >= 1
GenericChunk(filePath, content, table, options) ==
  GenericLoop(LoopStart(table), filePath, Split(content, NL), 0, options)

(***************************************************************************)
(* One call of a line-based chunker, one loop iteration per step.          *)
(*   run.loc    the locals of Chunk: currentChunk, startLine, inFunction,  *)
(*              chunks                                                     *)
(*   run.i      the loop index (counting from 0)                           *)
(*   run.pc     "loop" while iterating, "done" once Chunk has returned     *)
(*   run.call   1 for the first call on this input, 2 for the second       *)
(* symbolTable is the table the caller passed to Chunk.                    *)
(***************************************************************************)
Idle == [pc |-> "idle"]

NoFirst == <<>>

NoIds == [pc |-> "idle"]

NoFound == [pc |-> "idle"]

NoWalk == [pc |-> "idle"]

\* the lines the shell chunker is run on
ShellVocabulary ==
  { <<"f","(",")"," ","{">>,
    <<"f","u","n","c","t","i","o","n"," ","g"," ","{">>,
    <<"}">>,
    <<" ","}"," ","#","e">>,
    <<"x">> }

\* the lines the Dockerfile chunker is run on
DockerVocabulary ==
  { <<"F","R","O","M"," ","a"," ","A","S"," ","b">>,
    <<"R","U","N"," ","x">>,
    <<"#","c">>,
    <<>>,
    <<"x">> }

\* the lines the generic chunker is run on
GenericVocabulary ==
  { <<"f","u","n","c"," ","a">>,
    <<"i","n","t"," ","b">>,
    <<"x">> }

ShellPath == <<"s",".","s","h">>

DockerPath == <<"D","o","c","k","e","r","f","i","l","e">>

GenericPath == <<"n",".","t","x","t">>

\* cmd/root.go: the default of --min-chunk-size
DefaultMinChunkSize == 10

LineSeqs(vocabulary, maxLen) == UNION {[1..n -> vocabulary] : n \in 1..maxLen}

Locals(s) ==
  [currentChunk |-> s.currentChunk, startLine |-> s.startLine,
   inFunction |-> s.inFunction, chunks |-> s.chunks]

WithTable(loc, table) ==
  [currentChunk |-> loc.currentChunk, startLine |-> loc.startLine,
   inFunction |-> loc.inFunction, chunks |-> loc.chunks, table |-> table]

\* the state on entry to Chunk(filePath, content, symbolTable, options)
Enter(chunker, filePath, content, options, call) ==
  [chunker |-> chunker, filePath |-> filePath, content |-> content,
   options |-> options, lines |-> Split(content, NL), i |-> 0,
   loc |-> Locals(LoopStart(NewSymbolTable)), pc |-> "loop", call |-> call]

\* The symbols of a chunk come out of a range over a map: every order of
\* the names is a possible value of chunk.Symbols.
RECURSIVE SymbolOrders(_)
SymbolOrders(chunks) ==
  IF Len(chunks) = 0 THEN {<<>>}
  ELSE {<<[chunks[1] EXCEPT !.Symbols = o]>> \o rest :
          o \in MapOrders(SeqToSet(chunks[1].Symbols)),
          rest \in SymbolOrders(Tail(chunks))}

\* the chunk lists Chunk may hold after a step that took it from old to new
Emitted(old, new) ==
  {old \o t : t \in SymbolOrders(SubSeq(new, Len(old) + 1, Len(new)))}

\* the step from run to a state with locals s at index i and position pc
Advance(next, i, pc) ==
  \E s \in {next} : \E chunks \in Emitted(run.loc.chunks, s.chunks) :
    /\ run' = [run EXCEPT !.loc = [Locals(s) EXCEPT !.chunks = chunks],
                          !.i = i, !.pc = pc]
    /\ symbolTable' = s.table
    /\ UNCHANGED <<first, ids, registry, found, walk>>

ShellLine ==
  /\ run.pc = "loop" /\ run.chunker = "shell" /\ run.i < Len(run.lines)
  /\ Advance(ShellIter(WithTable(run.loc, symbolTable), run.filePath,
                       run.lines[run.i + 1], run.i, run.options),
             run.i + 1, "loop")

ShellReturn ==
  /\ run.pc = "loop" /\ run.chunker = "shell" /\ run.i >= Len(run.lines)
  /\ Advance(ShellRest(WithTable(run.loc, symbolTable), run.filePath, Len(run.lines)),
             run.i, "done")

DockerLine ==
  /\ run.pc = "loop" /\ run.chunker = "dockerfile" /\ run.i < Len(run.lines)
  /\ Advance(DockerIter(WithTable(run.loc, symbolTable), run.filePath,
                        run.lines[run.i + 1], run.i, run.options),
             run.i + 1, "loop")

DockerReturn ==
  /\ run.pc = "loop" /\ run.chunker = "dockerfile" /\ run.i >= Len(run.lines)
  /\ Advance(DockerRest(WithTable(run.loc, symbolTable), run.filePath, Len(run.lines)),
             run.i, "done")

\* end := i + options.MaxChunkSize; if end > len(lines) { end = len(lines) }
windowEnd(lines, i, options) ==
  IF i + options.MaxChunkSize > Len(lines) THEN Len(lines) ELSE i + options.MaxChunkSize

\* lines[i:end] does not panic: 0 <= i <= end <= len(lines)
SliceInRange(lines, i, end) == 0 <= i /\ i <= end /\ end <= Len(lines)

\* the windows a run of a line-window loop is followed for
MaxWindows == 6

GenericWindow ==
  /\ run.pc = "loop" /\ run.chunker = "generic" /\ run.i < Len(run.lines)
  /\ SliceInRange(run.lines, run.i, windowEnd(run.lines, run.i, run.options))
  /\ Len(run.loc.chunks) < MaxWindows
  /\ Advance(GenericIter(WithTable(run.loc, symbolTable), run.filePath,
                         run.lines, run.i, run.options),
             run.i + run.options.MaxChunkSize, "loop")

GenericReturn ==
  /\ run.pc = "loop" /\ run.chunker = "generic" /\ run.i >= Len(run.lines)
  /\ Advance(WithTable(run.loc, symbolTable), run.i, "done")

Options == [MinChunkSize : {DefaultMinChunkSize}, MaxChunkSize : 1..MaxM]

ChunkerInputs ==
  ({"shell"} \X {ShellPath} \X LineSeqs(ShellVocabulary, MaxLines))
  \cup ({"dockerfile"} \X {DockerPath} \X LineSeqs(DockerVocabulary, MaxLines))
  \cup ({"generic"} \X {GenericPath} \X LineSeqs(GenericVocabulary, MaxLines))

InitChunk ==
  /\ \E in \in ChunkerInputs, options \in Options :
       run = Enter(in[1], in[2], Join(in[3], NL), options, 1)
  /\ symbolTable = NewSymbolTable
  /\ first = NoFirst
  /\ ids = NoIds
  /\ registry = <<>>
  /\ found = NoFound
  /\ walk = NoWalk

NextChunk ==
  \/ ShellLine \/ ShellReturn
  \/ DockerLine \/ DockerReturn
  \/ GenericWindow \/ GenericReturn

SpecChunk == InitChunk /\ [][NextChunk]_vars

(***************************************************************************)
(* Line ranges of the chunks a chunker returned.                           *)
(***************************************************************************)
Returned(chunker) == run.pc = "done" /\ run.chunker = chunker

\* the ranges start at line 1, end at line n and follow each other
Partition(chunks, n) ==
  /\ Len(chunks) >= 1
  /\ chunks[1].StartLine = 1
  /\ chunks[Len(chunks)].EndLine = n
  /\ \A k \in 1..Len(chunks) : chunks[k].StartLine <= chunks[k].EndLine
  /\ \A k \in 1..(Len(chunks) - 1) : chunks[k + 1].StartLine = chunks[k].EndLine + 1

\* C1: the chunks ShellChunker.Chunk returns have contiguous line ranges
\* that start at line 1 and end at the last line, so every line is covered
\* exactly once, also when a function is never closed.
ShellPartition == Returned("shell") => Partition(run.loc.chunks, Len(run.lines))

\* a script whose last function is still open at the end of input, after
\* a block was flushed before it
ShellPartitionWitness ==
  /\ Returned("shell") /\ run.loc.inFunction
  /\ Len(run.loc.chunks) >= 2
  /\ Len(run.lines) >= 3

\* C2: the chunks DockerfileChunker.Chunk returns have contiguous line
\* ranges that start at line 1 and end at the last line, with no gap and
\* no overlap.
DockerPartition == Returned("dockerfile") => Partition(run.loc.chunks, Len(run.lines))

\* an instruction line that flushes the pending comment before it and is
\* itself flushed at once because MaxChunkSize is 1
DockerPartitionWitness ==
  /\ Returned("dockerfile") /\ run.options.MaxChunkSize = 1
  /\ Len(run.lines) >= 3
  /\ run.lines[1] = <<"#","c">> /\ isChunkBoundary(run.lines[2])
  /\ run.loc.chunks[1].EndLine = 1 /\ run.loc.chunks[2].EndLine = 2

CeilDiv(n, m) == (n + m - 1) \div m

\* C3: GenericChunker.Chunk returns ceil(n/m) consecutive windows, window k
\* (from 0) covering lines k*m+1 .. min((k+1)*m, n).
GenericWindows ==
  Returned("generic") =>
    LET n == Len(run.lines)
        m == run.options.MaxChunkSize
        chunks == run.loc.chunks
    IN /\ Len(chunks) = CeilDiv(n, m)
       /\ \A k \in 0..(Len(chunks) - 1) :
            /\ chunks[k + 1].StartLine = k * m + 1
            /\ chunks[k + 1].EndLine = (IF (k + 1) * m < n THEN (k + 1) * m ELSE n)
            /\ (k + 1 < Len(chunks) =>
                  chunks[k + 1].EndLine - chunks[k + 1].StartLine + 1 = m)
       /\ Partition(chunks, n)

\* a file whose last window is shorter than the others
GenericWindowsWitness ==
  /\ Returned("generic") /\ run.options.MaxChunkSize = 2
  /\ Len(run.lines) = 3 /\ Len(run.loc.chunks) = 2

(***************************************************************************)
(* The boundary cap scenario: 21 lines without a structural marker,        *)
(* MaxChunkSize = 10.                                                      *)
(***************************************************************************)
\* 21 lines, all base except line p (none when p = 0)
CapLines(base, special, p) == [k \in 1..21 |-> IF k = p THEN special ELSE base]

CapOptions == [MinChunkSize |-> DefaultMinChunkSize, MaxChunkSize |-> 10]

NoShellMarker(lines) ==
  \A k \in 1..Len(lines) :
    ~isFunctionStart(TrimSpace(lines[k])) /\ ~isFunctionEnd(TrimSpace(lines[k]))

NoDockerMarker(lines) ==
  \A k \in 1..Len(lines) : ~isChunkBoundary(TrimSpace(lines[k]))

CapInputs ==
  {in \in {"shell"} \X {ShellPath}
            \X {CapLines(<<"x">>, sp, p) : sp \in {<<>>, <<"#","c">>}, p \in 0..21} :
     NoShellMarker(in[3])}
  \cup
  {in \in {"dockerfile"} \X {DockerPath}
            \X {CapLines(<<"x">>, sp, p) : sp \in {<<>>, <<"#","c">>}, p \in 0..21} :
     NoDockerMarker(in[3])}

InitCap ==
  /\ \E in \in CapInputs : run = Enter(in[1], in[2], Join(in[3], NL), CapOptions, 1)
  /\ symbolTable = NewSymbolTable
  /\ first = NoFirst
  /\ ids = NoIds
  /\ registry = <<>>
  /\ found = NoFound
  /\ walk = NoWalk

NextCap == ShellLine \/ ShellReturn \/ DockerLine \/ DockerReturn

SpecCap == InitCap /\ [][NextCap]_vars

LineCounts(chunks) ==
  [k \in 1..Len(chunks) |-> chunks[k].EndLine - chunks[k].StartLine + 1]

ContentLines(chunks) ==
  [k \in 1..Len(chunks) |-> Len(Split(chunks[k].Content, NL))]

\* C4: 21 lines without a structural marker and MaxChunkSize = 10 give
\* exactly 3 chunks of 10, 10 and 1 lines, for the shell chunker and for
\* the Dockerfile chunker.
CapPattern ==
  (Returned("shell") \/ Returned("dockerfile")) =>
    /\ LineCounts(run.loc.chunks) = <<10, 10, 1>>
    /\ ContentLines(run.loc.chunks) = <<10, 10, 1>>

\* a Dockerfile whose second block opens with a comment line
CapPatternWitness ==
  /\ Returned("dockerfile") /\ Len(run.lines) = 21
  /\ run.options.MaxChunkSize = 10
  /\ run.lines[11] = <<"#","c">>
  /\ Len(run.loc.chunks) = 3

(***************************************************************************)
(* util.GenerateID on two (path, text) pairs.                              *)
(***************************************************************************)
IdAlphabet == {"a", "b"}

Strings(maxLen) == UNION {[1..n -> IdAlphabet] : n \in 0..maxLen}

InitID ==
  /\ \E path \in Strings(MaxPathLen), text \in Strings(MaxPathLen),
        path2 \in Strings(MaxPathLen), text2 \in Strings(MaxPathLen) :
       ids = [pc |-> "input", path |-> path, text |-> text,
              path2 |-> path2, text2 |-> text2]
  /\ run = Idle
  /\ symbolTable = NewSymbolTable
  /\ first = NoFirst
  /\ registry = <<>>
  /\ found = NoFound
  /\ walk = NoWalk

\* chunkID := util.GenerateID(filePath, content), for both pairs
ComputeIDs ==
  /\ ids.pc = "input"
  /\ ids' = [pc |-> "done", path |-> ids.path, text |-> ids.text,
             path2 |-> ids.path2, text2 |-> ids.text2,
             id |-> GenerateID(<<ids.path, ids.text>>),
             id2 |-> GenerateID(<<ids.path2, ids.text2>>)]
  /\ UNCHANGED <<run, symbolTable, first, registry, found, walk>>

NextID == ComputeIDs

SpecID == InitID /\ [][NextID]_vars

\* C5: GenerateID(path, text) = GenerateID(path', text') exactly when
\* path = path' and text = text'.
IdInjective ==
  ids.pc = "done" =>
    ((ids.id = ids.id2) <=> (ids.path = ids.path2 /\ ids.text = ids.text2))

(***************************************************************************)
(* Calling the same chunker twice on the same input, each time with a      *)
(* fresh symbol table.                                                     *)
(***************************************************************************)
CallAgain ==
  /\ run.pc = "done" /\ run.call = 1
  /\ first' = run.loc.chunks
  /\ run' = Enter(run.chunker, run.filePath, run.content, run.options, 2)
  /\ symbolTable' = NewSymbolTable
  /\ UNCHANGED <<ids, registry, found, walk>>

NextTwice == NextChunk \/ CallAgain

SpecTwice == InitChunk /\ [][NextTwice]_vars

\* C7: two calls of Chunk with identical (path, content, options) return
\* identical chunk sequences, the symbols of every chunk in the same order.
ChunkDeterministic ==
  (run.pc = "done" /\ run.call = 2) => run.loc.chunks = first

(***************************************************************************)
(* The chunker registry (internal/chunker/chunker.go).  A registered       *)
(* chunker is its kind and inst, the position at which it was registered   *)
(* (the identity of the object).                                           *)
(***************************************************************************)
LangGo == <<"g","o">>

LangBash == <<"b","a","s","h">>

LangZsh == <<"z","s","h">>

LangUnknown == <<"u","n","k","n","o","w","n">>

ChunkerKinds == {"go", "shell", "dockerfile", "generic"}

Nil == [kind |-> "nil", inst |-> 0]

\* GoChunker.CanHandle, ShellChunker.CanHandle, DockerfileChunker.CanHandle,
\* GenericChunker.CanHandle
CanHandle(chunker, filePath, language, framework) ==
  CASE chunker.kind = "go" -> language = LangGo
    [] chunker.kind = "shell" ->
         language = LangShell \/ language = LangBash \/ language = LangZsh
    [] chunker.kind = "dockerfile" -> language = LangDockerfile
    [] chunker.kind = "generic" -> TRUE

NewChunkerRegistry == <<>>

\* cr.chunkers = append(cr.chunkers, chunker)
RegisterChunker(chunkers, kind) ==
  Append(chunkers, [kind |-> kind, inst |-> Len(chunkers) + 1])

\* FindChunker returning the last chunker that can handle the file
RECURSIVE FindChunkerLast(_, _, _, _)
FindChunkerLast(chunkers, filePath, language, framework) ==
  IF Len(chunkers) = 0 THEN Nil
  ELSE IF CanHandle(chunkers[Len(chunkers)], filePath, language, framework)
       THEN chunkers[Len(chunkers)]
       ELSE FindChunkerLast(SubSeq(chunkers, 1, Len(chunkers) - 1),
                            filePath, language, framework)

\* ChunkerRegistry.FindChunker: the loop over cr.chunkers
RECURSIVE FindChunker(_, _, _, _)
FindChunker(chunkers, filePath, language, framework) ==
  IF Len(chunkers) = 0 THEN Nil
  ELSE IF CanHandle(chunkers[1], filePath, language, framework) THEN chunkers[1]
       ELSE FindChunker(Tail(chunkers), filePath, language, framework)

QueryPaths == {ShellPath, DockerPath, GenericPath}

QueryLanguages == {LangGo, LangShell, LangBash, LangZsh, LangDockerfile, LangUnknown}

QueryFrameworks == {<<>>, <<"r","e","a","c","t">>}

Register ==
  /\ Len(registry) < MaxRegistered
  /\ \E kind \in ChunkerKinds : registry' = RegisterChunker(registry, kind)
  /\ UNCHANGED <<run, symbolTable, first, ids, found, walk>>

FindChunkerCall ==
  /\ \E filePath \in QueryPaths, language \in QueryLanguages,
        framework \in QueryFrameworks :
       found' = [pc |-> "found", filePath |-> filePath, language |-> language,
                 framework |-> framework,
                 result |-> FindChunker(registry, filePath, language, framework)]
  /\ UNCHANGED <<run, symbolTable, first, ids, registry, walk>>

InitRegistry ==
  /\ registry = NewChunkerRegistry
  /\ found = NoFound
  /\ run = Idle
  /\ symbolTable = NewSymbolTable
  /\ first = NoFirst
  /\ ids = NoIds
  /\ walk = NoWalk

NextRegistry == Register \/ FindChunkerCall

SpecRegistry == InitRegistry /\ [][NextRegistry]_vars

\* the positions of the registered chunkers that can handle the triple
Handlers(chunkers, filePath, language, framework) ==
  {k \in 1..Len(chunkers) : CanHandle(chunkers[k], filePath, language, framework)}

\* C8: FindChunker returns the chunker registered earliest among those that
\* can handle (path, language, framework), nil when there is none, and it
\* leaves the registry as it was.
FindsEarliest ==
  [][found' # found =>
       LET h == Handlers(registry, found'.filePath, found'.language, found'.framework)
       IN /\ registry' = registry
          /\ found'.result = (IF h = {} THEN Nil ELSE registry[SetMin(h)])]_vars

\* two registered chunkers can handle the file and the earlier one is returned
FindsEarliestWitness ==
  /\ found.pc = "found"
  /\ Cardinality(Handlers(registry, found.filePath, found.language, found.framework)) >= 2
  /\ found.result # Nil
  /\ found.result.inst < Len(registry)

(***************************************************************************)
(* Paths (path/filepath with the separator "/").                           *)
(***************************************************************************)
Slashes(path) == {k \in 1..Len(path) : path[k] = "/"}

\* the path without its trailing separators
RECURSIVE StripSlashes(_)
StripSlashes(path) ==
  IF path # <<>> /\ path[Len(path)] = "/" THEN StripSlashes(SubSeq(path, 1, Len(path) - 1))
  ELSE path

\* filepath.Base
Base(path) ==
  IF path = <<>> THEN <<".">>
  ELSE IF StripSlashes(path) = <<>> THEN <<"/">>
  ELSE IF Slashes(StripSlashes(path)) = {} THEN StripSlashes(path)
  ELSE SubSeq(StripSlashes(path), SetMax(Slashes(StripSlashes(path))) + 1, Len(StripSlashes(path)))

\* the elements filepath.Clean keeps: empty and "." elements are dropped, ".."
\* removes the element before it, stays in a relative path that has none and
\* is dropped at the root
RECURSIVE CleanElements(_, _, _)
CleanElements(elems, kept, rooted) ==
  IF elems = <<>> THEN kept
  ELSE IF elems[1] = <<>> \/ elems[1] = <<".">> THEN CleanElements(Tail(elems), kept, rooted)
  ELSE IF elems[1] = <<".", ".">>
  THEN IF kept # <<>> /\ kept[Len(kept)] # <<".", ".">>
       THEN CleanElements(Tail(elems), SubSeq(kept, 1, Len(kept) - 1), rooted)
       ELSE IF rooted THEN CleanElements(Tail(elems), kept, rooted)
       ELSE CleanElements(Tail(elems), Append(kept, elems[1]), rooted)
  ELSE CleanElements(Tail(elems), Append(kept, elems[1]), rooted)

\* filepath.Clean
Clean(path) ==
  IF path = <<>> THEN <<".">>
  ELSE IF path[1] = "/" THEN <<"/">> \o Join(CleanElements(Split(path, "/"), <<>>, TRUE), "/")
  ELSE IF CleanElements(Split(path, "/"), <<>>, FALSE) = <<>> THEN <<".">>
  ELSE Join(CleanElements(Split(path, "/"), <<>>, FALSE), "/")

\* filepath.Dir
Dir(path) ==
  IF Slashes(path) = {} THEN Clean(<<>>)
  ELSE Clean(SubSeq(path, 1, SetMax(Slashes(path))))

\* a Go map literal as the sequence of its <<key, value>> entries
HasKey(entries, key) == \E k \in 1..Len(entries) : entries[k][1] = key

ValueOf(entries, key) == entries[CHOOSE k \in 1..Len(entries) : entries[k][1] = key][2]

(***************************************************************************)
(* pkg/util/fileutil.go                                                    *)
(***************************************************************************)
binaryExts ==
  {<<".","e","x","e">>, <<".","d","l","l">>, <<".","s","o">>, <<".","d","y","l","i","b">>, <<".","b","i","n">>, <<".","o","b","j">>, <<".","o">>, <<".","a">>, <<".","l","i","b">>, <<".","p","n","g">>,
   <<".","j","p","g">>, <<".","j","p","e","g">>, <<".","g","i","f">>, <<".","b","m","p">>, <<".","t","i","f","f">>, <<".","i","c","o">>, <<".","z","i","p">>, <<".","t","a","r">>, <<".","g","z">>, <<".","b","z","2">>,
   <<".","7","z">>, <<".","r","a","r">>, <<".","p","d","f">>, <<".","d","o","c">>, <<".","d","o","c","x">>, <<".","x","l","s">>, <<".","x","l","s","x">>, <<".","p","p","t">>, <<".","p","p","t","x">>}

IsBinaryFile(filename) == ToLower(Ext(filename)) \in binaryExts

dirsToSkip ==
  {<<".","g","i","t">>, <<"n","o","d","e","_","m","o","d","u","l","e","s">>, <<"v","e","n","d","o","r">>, <<"d","i","s","t">>, <<"b","u","i","l","d">>, <<"t","a","r","g","e","t">>, <<"c","d","k",".","o","u","t">>, <<".","n","e","x","t">>,
   <<".","a","n","g","u","l","a","r">>}

ShouldSkipDirectory(dirName) == dirName \in dirsToSkip

(***************************************************************************)
(* internal/detector/language.go                                           *)
(***************************************************************************)
extensionMap ==
  << <<<<".","g","o">>, <<"g","o">>>>, <<<<".","j","s">>, <<"j","a","v","a","s","c","r","i","p","t">>>>, <<<<".","j","s","x">>, <<"j","s","x">>>>,
     <<<<".","t","s">>, <<"t","y","p","e","s","c","r","i","p","t">>>>, <<<<".","t","s","x">>, <<"t","s","x">>>>, <<<<".","p","y">>, <<"p","y","t","h","o","n">>>>,
     <<<<".","r","b">>, <<"r","u","b","y">>>>, <<<<".","j","a","v","a">>, <<"j","a","v","a">>>>, <<<<".","k","t">>, <<"k","o","t","l","i","n">>>>,
     <<<<".","k","t","s">>, <<"k","o","t","l","i","n">>>>, <<<<".","s","w","i","f","t">>, <<"s","w","i","f","t">>>>, <<<<".","c">>, <<"c">>>>, <<<<".","h">>, <<"c">>>>,
     <<<<".","c","p","p">>, <<"c","p","p">>>>, <<<<".","c","c">>, <<"c","p","p">>>>, <<<<".","c","x","x">>, <<"c","p","p">>>>, <<<<".","h","p","p">>, <<"c","p","p">>>>,
     <<<<".","c","s">>, <<"c","s","h","a","r","p">>>>, <<<<".","r","s">>, <<"r","u","s","t">>>>, <<<<".","p","h","p">>, <<"p","h","p">>>>, <<<<".","d","a","r","t">>, <<"d","a","r","t">>>>,
     <<<<".","s","h">>, <<"s","h","e","l","l">>>>, <<<<".","b","a","s","h">>, <<"s","h","e","l","l">>>>, <<<<".","z","s","h">>, <<"s","h","e","l","l">>>>,
     <<<<".","f","i","s","h">>, <<"s","h","e","l","l">>>>, <<<<".","p","s","1">>, <<"p","o","w","e","r","s","h","e","l","l">>>>, <<<<".","b","a","t">>, <<"b","a","t","c","h">>>>,
     <<<<".","c","m","d">>, <<"b","a","t","c","h">>>>, <<<<".","h","t","m","l">>, <<"h","t","m","l">>>>, <<<<".","c","s","s">>, <<"c","s","s">>>>,
     <<<<".","s","c","s","s">>, <<"s","c","s","s">>>>, <<<<".","l","e","s","s">>, <<"l","e","s","s">>>>, <<<<".","v","u","e">>, <<"v","u","e">>>>,
     <<<<".","s","v","e","l","t","e">>, <<"s","v","e","l","t","e">>>>, <<<<".","j","s","o","n">>, <<"j","s","o","n">>>>, <<<<".","y","a","m","l">>, <<"y","a","m","l">>>>,
     <<<<".","y","m","l">>, <<"y","a","m","l">>>>, <<<<".","t","o","m","l">>, <<"t","o","m","l">>>>, <<<<".","m","d">>, <<"m","a","r","k","d","o","w","n">>>>,
     <<<<".","m","a","r","k","d","o","w","n">>, <<"m","a","r","k","d","o","w","n">>>>, <<<<".","i","n","i">>, <<"i","n","i">>>>, <<<<".","c","o","n","f">>, <<"c","o","n","f">>>>,
     <<<<".","e","n","v">>, <<"e","n","v">>>> >>

specialFilesMap ==
  << <<<<"d","o","c","k","e","r","f","i","l","e">>, <<"d","o","c","k","e","r","f","i","l","e">>>>, <<<<"m","a","k","e","f","i","l","e">>, <<"m","a","k","e","f","i","l","e">>>>,
     <<<<"j","e","n","k","i","n","s","f","i","l","e">>, <<"j","e","n","k","i","n","s","f","i","l","e">>>>, <<<<"g","e","m","f","i","l","e">>, <<"r","u","b","y">>>>, <<<<"r","a","k","e","f","i","l","e">>, <<"r","u","b","y">>>>,
     <<<<"c","m","a","k","e","l","i","s","t","s",".","t","x","t">>, <<"c","m","a","k","e">>>>, <<<<".","g","i","t","i","g","n","o","r","e">>, <<"g","i","t","i","g","n","o","r","e">>>>,
     <<<<".","d","o","c","k","e","r","i","g","n","o","r","e">>, <<"d","o","c","k","e","r","i","g","n","o","r","e">>>>, <<<<".","b","a","s","h","r","c">>, <<"s","h","e","l","l">>>>,
     <<<<".","z","s","h","r","c">>, <<"s","h","e","l","l">>>>, <<<<".","b","a","s","h","_","p","r","o","f","i","l","e">>, <<"s","h","e","l","l">>>>, <<<<".","p","r","o","f","i","l","e">>, <<"s","h","e","l","l">>>> >>

\* language.go 112-131: the language named by a shebang line
ShebangLanguage(firstLine) ==
  IF Contains(firstLine, <<"/","b","i","n","/","b","a","s","h">>) \/ Contains(firstLine, <<"/","b","i","n","/","s","h">>) THEN <<"s","h","e","l","l">>
  ELSE IF Contains(firstLine, <<"/","b","i","n","/","z","s","h">>) THEN <<"s","h","e","l","l">>
  ELSE IF Contains(firstLine, <<"p","y","t","h","o","n">>) THEN <<"p","y","t","h","o","n">>
  ELSE IF Contains(firstLine, <<"r","u","b","y">>) THEN <<"r","u","b","y">>
  ELSE IF Contains(firstLine, <<"n","o","d","e">>) \/ Contains(firstLine, <<"n","o","d","e","j","s">>) THEN <<"j","a","v","a","s","c","r","i","p","t">>
  ELSE <<"s","h","e","l","l">>

\* language.go 144-148: the special files of which baseName is an extension;
\* no special file name followed by a dot is a prefix of another, so the
\* range over the map finds at most one
SpecialWithExtension(baseName) ==
  {k \in 1..Len(specialFilesMap) : HasPrefix(baseName, specialFilesMap[k][1] \o <<".">>)}

DetectLanguage(filePath, content) ==
  IF ToLower(Base(filePath)) = <<"d","o","c","k","e","r","f","i","l","e">> THEN <<"d","o","c","k","e","r","f","i","l","e">>
  ELSE IF Len(content) > 2 /\ content[1] = "#" /\ content[2] = "!"
  THEN ShebangLanguage(Split(content, NL)[1])
  ELSE IF HasKey(extensionMap, ToLower(Ext(filePath)))
  THEN ValueOf(extensionMap, ToLower(Ext(filePath)))
  ELSE IF HasKey(specialFilesMap, ToLower(Base(filePath)))
  THEN ValueOf(specialFilesMap, ToLower(Base(filePath)))
  ELSE IF SpecialWithExtension(ToLower(Base(filePath))) # {}
  THEN specialFilesMap[CHOOSE k \in SpecialWithExtension(ToLower(Base(filePath))) : TRUE][2]
  ELSE <<"u","n","k","n","o","w","n">>

(***************************************************************************)
(* internal/detector/framework.go                                          *)
(***************************************************************************)
frameworkPatterns ==
  << <<<<"r","e","a","c","t">>, <<<<"i","m","p","o","r","t"," ","R","e","a","c","t">>, <<"f","r","o","m"," ","'","r","e","a","c","t","'">>, <<"f","r","o","m"," ","\"","r","e","a","c","t","\"">>, <<"R","e","a","c","t",".","C","o","m","p","o","n","e","n","t">>,
                  <<"e","x","t","e","n","d","s"," ","C","o","m","p","o","n","e","n","t">>, <<"u","s","e","S","t","a","t","e">>, <<"u","s","e","E","f","f","e","c","t">>, <<"c","r","e","a","t","e","C","o","n","t","e","x","t">>>> >>,
     <<<<"a","n","g","u","l","a","r">>, <<<<"@","a","n","g","u","l","a","r","/","c","o","r","e">>, <<"@","C","o","m","p","o","n","e","n","t">>, <<"@","N","g","M","o","d","u","l","e">>, <<"@","I","n","j","e","c","t","a","b","l","e">>,
                    <<"m","o","d","u","l","e","I","d">>, <<"p","l","a","t","f","o","r","m","B","r","o","w","s","e","r","D","y","n","a","m","i","c">>>> >>,
     <<<<"v","u","e">>, <<<<"i","m","p","o","r","t"," ","V","u","e">>, <<"f","r","o","m"," ","'","v","u","e","'">>, <<"f","r","o","m"," ","\"","v","u","e","\"">>, <<"n","e","w"," ","V","u","e">>, <<"c","r","e","a","t","e","A","p","p">>,
                <<"<","t","e","m","p","l","a","t","e",">">>, <<"V","u","e",".","c","o","m","p","o","n","e","n","t">>, <<"d","e","f","i","n","e","C","o","m","p","o","n","e","n","t">>>> >>,
     <<<<"s","v","e","l","t","e">>, <<<<"<","s","c","r","i","p","t",">">>, <<"<","s","t","y","l","e",">">>, <<"e","x","p","o","r","t"," ","l","e","t">>, <<"s","v","e","l","t","e",":">>>> >>,
     <<<<"n","e","x","t","j","s">>, <<<<"i","m","p","o","r","t"," ","{"," ","N","e","x","t","P","a","g","e"," ","}">>, <<"G","e","t","S","e","r","v","e","r","S","i","d","e","P","r","o","p","s">>, <<"G","e","t","S","t","a","t","i","c","P","a","t","h","s">>,
                   <<"G","e","t","S","t","a","t","i","c","P","r","o","p","s">>, <<"n","e","x","t","/","r","o","u","t","e","r">>, <<"n","e","x","t","/","l","i","n","k">>, <<"N","e","x","t","A","p","i","R","e","q","u","e","s","t">>,
                   <<"N","e","x","t","A","p","i","R","e","s","p","o","n","s","e">>>> >>,
     <<<<"f","l","u","t","t","e","r">>, <<<<"p","a","c","k","a","g","e",":","f","l","u","t","t","e","r">>, <<"e","x","t","e","n","d","s"," ","S","t","a","t","e","l","e","s","s","W","i","d","g","e","t">>,
                    <<"e","x","t","e","n","d","s"," ","S","t","a","t","e","f","u","l","W","i","d","g","e","t">>, <<"B","u","i","l","d","C","o","n","t","e","x","t">>, <<"M","a","t","e","r","i","a","l","A","p","p">>>> >>,
     <<<<"r","e","a","c","t","n","a","t","i","v","e">>, <<<<"f","r","o","m"," ","'","r","e","a","c","t","-","n","a","t","i","v","e","'">>,
                        <<"i","m","p","o","r","t"," ","{"," ","V","i","e","w",","," ","T","e","x","t"," ","}"," ","f","r","o","m"," ","'","r","e","a","c","t","-","n","a","t","i","v","e","'">>,
                        <<"S","t","y","l","e","S","h","e","e","t",".","c","r","e","a","t","e">>, <<"A","p","p","R","e","g","i","s","t","r","y">>>> >> >>

frameworkLanguages == {<<"j","a","v","a","s","c","r","i","p","t">>, <<"t","y","p","e","s","c","r","i","p","t">>, <<"j","s","x">>, <<"t","s","x">>, <<"d","a","r","t">>}

\* framework.go 116-138: the framework named by the dependencies of a package.json
PackageJSONFrameworks(contentStr) ==
  IF Contains(contentStr, <<"\"","r","e","a","c","t","\"">>) /\ ~Contains(contentStr, <<"\"","r","e","a","c","t","-","n","a","t","i","v","e","\"">>)
  THEN {<<"r","e","a","c","t">>}
  ELSE IF Contains(contentStr, <<"\"","@","a","n","g","u","l","a","r","/","c","o","r","e","\"">>) THEN {<<"a","n","g","u","l","a","r">>}
  ELSE IF Contains(contentStr, <<"\"","v","u","e","\"">>) THEN {<<"v","u","e">>}
  ELSE IF Contains(contentStr, <<"\"","s","v","e","l","t","e","\"">>) THEN {<<"s","v","e","l","t","e">>}
  ELSE IF Contains(contentStr, <<"\"","n","e","x","t","\"">>) THEN {<<"n","e","x","t","j","s">>}
  ELSE IF Contains(contentStr, <<"\"","r","e","a","c","t","-","n","a","t","i","v","e","\"">>) THEN {<<"r","e","a","c","t","n","a","t","i","v","e">>}
  ELSE {}

\* framework.go 141-148: the range over frameworkPatterns returns the first
\* framework it meets one of whose patterns occurs: any framework with such a pattern
PatternFrameworks(contentStr) ==
  {frameworkPatterns[k][1] : k \in
     {k \in 1..Len(frameworkPatterns) :
        \E j \in 1..Len(frameworkPatterns[k][2]) :
          Contains(contentStr, frameworkPatterns[k][2][j])}}

\* DetectFramework: the tags it may return
DetectFramework(filePath, content, language) ==
  IF ToLower(Ext(filePath)) \in {<<".","j","s","x">>, <<".","t","s","x">>} THEN {<<"r","e","a","c","t">>}
  ELSE IF ToLower(Ext(filePath)) = <<".","v","u","e">> THEN {<<"v","u","e">>}
  ELSE IF ToLower(Ext(filePath)) = <<".","s","v","e","l","t","e">> THEN {<<"s","v","e","l","t","e">>}
  ELSE IF language \notin frameworkLanguages THEN {<<>>}
  ELSE IF ToLower(Base(filePath)) = <<"p","a","c","k","a","g","e",".","j","s","o","n">> /\ PackageJSONFrameworks(content) # {}
  THEN PackageJSONFrameworks(content)
  ELSE IF PatternFrameworks(content) # {} THEN PatternFrameworks(content)
  ELSE {<<>>}

(***************************************************************************)
(* The Go chunker (internal/chunker/go.go).  A position is token.Position   *)
(* (Offset from 0, Line from 1); a declaration carries what the chunker    *)
(* reads of it; Nodes lists the nodes of the file in the order ast.Walk    *)
(* visits them, each with the line of its Pos() and, for an *ast.Ident,    *)
(* its name.                                                               *)
(***************************************************************************)
Position(offset, line) == [Offset |-> offset, Line |-> line]

NoRecv == [nil |-> TRUE, star |-> FALSE, ident |-> <<>>]

\* a receiver of type ident, or *ident when star
Recv(star, ident) == [nil |-> FALSE, star |-> star, ident |-> ident]

FuncDecl(name, recv, pos, end) ==
  [node |-> "FuncDecl", Tok |-> <<"f","u","n","c">>, Name |-> name, Recv |-> recv, Names |-> <<>>,
   Interface |-> FALSE, Pos |-> pos, End |-> end]

\* Names: the names its specs declare; Interface: the type of one of its
\* specs is an *ast.InterfaceType
GenDecl(tok, names, interface, pos, end) ==
  [node |-> "GenDecl", Tok |-> tok, Name |-> <<>>, Recv |-> NoRecv, Names |-> names,
   Interface |-> interface, Pos |-> pos, End |-> end]

Node(line) == [Line |-> line, Ident |-> <<>>]

Ident(name, line) == [Line |-> line, Ident |-> name]

\* package p / func f() {}
goSourceFunc == <<"p","a","c","k","a","g","e"," ","p","\n","f","u","n","c"," ","f","(",")"," ","{","}">>

\* package p / type T int / func (t T) m() {}
goSourceMethod == <<"p","a","c","k","a","g","e"," ","p","\n","t","y","p","e"," ","T"," ","i","n","t","\n","f","u","n","c"," ","(","t"," ","T",")"," ","m","(",")"," ","{","}">>

\* package p / import "q" / func f() {}
goSourceImport == <<"p","a","c","k","a","g","e"," ","p","\n","i","m","p","o","r","t"," ","\"","q","\"","\n","f","u","n","c"," ","f","(",")"," ","{","}">>

\* not a Go source file
goSourceInvalid == <<"x">>

\* package p / type T int / func (t *T) m() {}
goSourcePointer == <<"p","a","c","k","a","g","e"," ","p","\n","t","y","p","e"," ","T"," ","i","n","t","\n","f","u","n","c"," ","(","t"," ","*","T",")"," ","m","(",")"," ","{","}">>

\* package main / (empty line) / func main() { / }
goSourceMain == <<"p","a","c","k","a","g","e"," ","m","a","i","n","\n","\n","f","u","n","c"," ","m","a","i","n","(",")"," ","{","\n","}">>

\* package p / import "a" / import f "b" / func f() {}
goSourceAlias == <<"p","a","c","k","a","g","e"," ","p","\n","i","m","p","o","r","t"," ","\"","a","\"","\n","i","m","p","o","r","t"," ","f"," ","\"","b","\"","\n","f","u","n","c"," ","f","(",")"," ","{","}">>

\* package p / func g() { f() }
goSourceUse == <<"p","a","c","k","a","g","e"," ","p","\n","f","u","n","c"," ","g","(",")"," ","{"," ","f","(",")"," ","}">>

\* package _ / type I interface{}
goSourceInterface == <<"p","a","c","k","a","g","e"," ","_","\n","t","y","p","e"," ","I"," ","i","n","t","e","r","f","a","c","e","{","}">>

\* sources of the subset of Go that ParseFile parses
GoSamples ==
  {goSourceFunc, goSourceMethod, goSourceImport, goSourcePointer, goSourceMain, goSourceAlias,
   goSourceUse, goSourceInterface}

basicTypes ==
  {<<"b","o","o","l">>, <<"b","y","t","e">>, <<"c","o","m","p","l","e","x","1","2","8">>, <<"c","o","m","p","l","e","x","6","4">>, <<"e","r","r","o","r">>, <<"f","l","o","a","t","3","2">>, <<"f","l","o","a","t","6","4">>, <<"i","n","t">>,
   <<"i","n","t","1","6">>, <<"i","n","t","3","2">>, <<"i","n","t","6","4">>, <<"i","n","t","8">>, <<"r","u","n","e">>, <<"s","t","r","i","n","g">>, <<"u","i","n","t">>, <<"u","i","n","t","1","6">>, <<"u","i","n","t","3","2">>,
   <<"u","i","n","t","6","4">>, <<"u","i","n","t","8">>, <<"u","i","n","t","p","t","r">>}

isBasicType(name) == name \in basicTypes

keywords ==
  {<<"b","r","e","a","k">>, <<"c","a","s","e">>, <<"c","h","a","n">>, <<"c","o","n","s","t">>, <<"c","o","n","t","i","n","u","e">>, <<"d","e","f","a","u","l","t">>, <<"d","e","f","e","r">>, <<"e","l","s","e">>,
   <<"f","a","l","l","t","h","r","o","u","g","h">>, <<"f","o","r">>, <<"f","u","n","c">>, <<"g","o">>, <<"g","o","t","o">>, <<"i","f">>, <<"i","m","p","o","r","t">>, <<"i","n","t","e","r","f","a","c","e">>, <<"m","a","p">>,
   <<"p","a","c","k","a","g","e">>, <<"r","a","n","g","e">>, <<"r","e","t","u","r","n">>, <<"s","e","l","e","c","t">>, <<"s","t","r","u","c","t">>, <<"s","w","i","t","c","h">>, <<"t","y","p","e">>, <<"v","a","r">>}

isKeyword(name) == name \in keywords

(***************************************************************************)
(* go/parser.  ParseFile is followed on a subset of Go, GoSubset below;    *)
(* on a content the subset does not hold it is decided only where the      *)
(* content is no Go source for a reason listed at GoSyntax, and is left    *)
(* undefined elsewhere.  A token carries its kind k, its text v, its       *)
(* offset o and line l, the number d of brackets open after it, the        *)
(* comment group doc that leads it and, on an inserted semicolon, the line *)
(* trail of the comment that ends its line.                                *)
(***************************************************************************)
\* the printable ASCII characters that are no letter, digit or underscore,
\* but for the back quote
AsciiPunct ==
  {" ", "!", "\"", "#", "$", "%", "&", "'", "(", ")", "*", "+", ",", "-", ".", "/", ":",
   ";", "<", "=", ">", "?", "@", "[", "\\", "]", "^", "{", "|", "}", "~"}

IsPrintable(c) == IsWord(c) \/ c \in AsciiPunct

IsAscii(c) == IsPrintable(c) \/ c \in {"\t", "\n", "\r"}

NoComment == [nil |-> TRUE, Pos |-> Position(0, 0), lines |-> <<>>]

Tok(k, v, o, l) ==
  [k |-> k, v |-> v, o |-> o, l |-> l, d |-> 0, doc |-> NoComment, trail |-> 0]

TokPos(t) == Position(t.o, t.l)

\* the tokens of the subset lie on one line
TokEnd(t) == Position(t.o + Len(t.v), t.l)

\* go/scanner: the keywords after which a newline ends the statement
semiKeywords == {<<"b","r","e","a","k">>, <<"c","o","n","t","i","n","u","e">>, <<"f","a","l","l","t","h","r","o","u","g","h">>, <<"r","e","t","u","r","n">>}

\* the quotes of src in from..to
Quotes(src, from, to) == Cardinality({m \in from..to : src[m] = "\""})

\* the position in the line ls..le-1 where its comment starts, le when it
\* has none: the first // that no string holds
CommentStart(src, ls, le) ==
  IF {p \in ls..(le - 2) :
        src[p] = "/" /\ src[p + 1] = "/" /\ Quotes(src, ls, p - 1) % 2 = 0} = {}
  THEN le
  ELSE SetMin({p \in ls..(le - 2) :
                 src[p] = "/" /\ src[p + 1] = "/" /\ Quotes(src, ls, p - 1) % 2 = 0})

\* the first position after the quote at i that ends the characters an
\* interpreted string of the subset holds: no quote, backslash or newline
StringEnd(src, i) ==
  IF {k \in (i + 1)..Len(src) : ~IsPrintable(src[k]) \/ src[k] \in {"\"", "\\"}} = {}
  THEN Len(src) + 1
  ELSE SetMin({k \in (i + 1)..Len(src) : ~IsPrintable(src[k]) \/ src[k] \in {"\"", "\\"}})

\* the character at i is followed by one of next
FollowedBy(src, i, next) == i + 1 <= Len(src) /\ src[i + 1] \in next

\* a // comment of the subset: printable, and no //line directive
PlainComment(text) ==
  /\ \A k \in 1..Len(text) : IsPrintable(text[k]) \/ text[k] = "\t"
  /\ ~HasPrefix(text, <<"/","/","l","i","n","e"," ">>)

\* no token starts at a position
NoToken == Tok("none", <<>>, 0, 0)

\* the subset does not hold what starts at position k
BadToken(k, line) == Tok("bad", <<>>, k - 1, line)

\* the word src[k..j-1]: a decimal integer (0, or digits that do not start
\* with 0), a keyword or an identifier
WordToken(src, k, j, line) ==
  IF j <= Len(src) /\ ~IsAscii(src[j]) THEN BadToken(k, line)
  ELSE IF src[k] \in Digits
  THEN IF /\ \A m \in k..(j - 1) : src[m] \in Digits
          /\ (j - k = 1 \/ src[k] # "0")
          /\ (j > Len(src) \/ src[j] # ".")
       THEN Tok("int", SubSeq(src, k, j - 1), k - 1, line)
       ELSE BadToken(k, line)
  ELSE IF isKeyword(SubSeq(src, k, j - 1)) THEN Tok("kw", SubSeq(src, k, j - 1), k - 1, line)
  ELSE Tok("ident", SubSeq(src, k, j - 1), k - 1, line)

\* the interpreted string src[k..j]
StringToken(src, k, j, line) ==
  IF j <= Len(src) /\ src[j] = "\"" THEN Tok("string", SubSeq(src, k, j), k - 1, line)
  ELSE BadToken(k, line)

\* the last position of the code ls..cs-1 of a line that is no blank, 0
\* when there is none
LastCode(src, ls, cs) ==
  IF {m \in ls..(cs - 1) : src[m] \notin {" ", "\t", "\r"}} = {} THEN 0
  ELSE SetMax({m \in ls..(cs - 1) : src[m] \notin {" ", "\t", "\r"}})

\* the word that ends at position m of the line that starts at ls
WordBefore(src, ls, m) ==
  IF {p \in ls..m : ~IsWord(src[p])} = {} THEN SubSeq(src, ls, m)
  ELSE SubSeq(src, SetMax({p \in ls..m : ~IsWord(src[p])}) + 1, m)

\* go/scanner insertSemi at the end of a line whose code ends at m: after
\* an identifier, a literal, one of semiKeywords or a closing bracket
EndsStatement(src, ls, m) ==
  /\ m > 0
  /\ \/ src[m] \in {")", "]", "}", "\""}
     \/ /\ IsWord(src[m])
        /\ (isKeyword(WordBefore(src, ls, m)) => WordBefore(src, ls, m) \in semiKeywords)

\* go/scanner Scan: the token that starts at position k of the line line,
\* which starts at ls, ends at le (the position of its newline or of the
\* end of the file) and holds its comment from cs on.  The end of a line
\* gives a semicolon after a token that may end a statement
TokenAt(src, k, ls, le, cs, line) ==
  IF k = le
  THEN IF EndsStatement(src, ls, LastCode(src, ls, cs))
       THEN Tok("semi", <<NL>>, le - 1, line) ELSE NoToken
  ELSE IF k > cs THEN NoToken
  ELSE IF k = cs
  THEN IF PlainComment(SubSeq(src, cs, le - 1))
       THEN Tok("comment", SubSeq(src, cs, le - 1), cs - 1, line) ELSE BadToken(k, line)
  ELSE IF Quotes(src, ls, k - 1) % 2 = 1 THEN NoToken
  ELSE IF src[k] = "\"" THEN StringToken(src, k, StringEnd(src, k), line)
  ELSE IF src[k] \in {" ", "\t", "\r"} THEN NoToken
  ELSE IF IsWord(src[k])
  THEN IF k > ls /\ IsWord(src[k - 1]) THEN NoToken
       ELSE WordToken(src, k, Skip("w", src, k), line)
  ELSE IF \/ src[k] \in {"(", "[", "{", ",", ")", "]", "}"}
          \/ src[k] = "." /\ ~FollowedBy(src, k, Digits \cup {"."})
          \/ src[k] \in {"=", "*"} /\ ~FollowedBy(src, k, {"="})
  THEN Tok("op", <<src[k]>>, k - 1, line)
  ELSE BadToken(k, line)

IsSome(t) == t.k # "none"

\* the tokens of the line line of src, ls..le
LineTokens(src, ls, le, cs, line) ==
  SelectSeq([j \in 1..(le - ls + 1) |-> TokenAt(src, ls + j - 1, ls, le, cs, line)], IsSome)

AtNewline(p) == p.c = NL

\* the positions of the newlines of src, in order
Newlines(src) == SelectSeq([k \in 1..Len(src) |-> [at |-> k, c |-> src[k]]], AtNewline)

\* the line n of src, which the newlines nls cut: its start and its end
LineStart(nls, n) == IF n = 1 THEN 1 ELSE nls[n - 1].at + 1

LineEnd(src, nls, n) == IF n > Len(nls) THEN Len(src) + 1 ELSE nls[n].at

\* the tokens of the lines of src.  No token of the subset holds a newline,
\* and insertSemi is false where a line starts
Lines(src, nls) ==
  [n \in 1..(Len(nls) + 1) |->
     LineTokens(src, LineStart(nls, n), LineEnd(src, nls, n),
                CommentStart(src, LineStart(nls, n), LineEnd(src, nls, n)), n)]

\* the sequences parts[lo..hi], one after the other
RECURSIVE Flat(_, _, _)
Flat(parts, lo, hi) ==
  IF lo > hi THEN <<>>
  ELSE IF lo = hi THEN parts[lo]
  ELSE Flat(parts, lo, (lo + hi) \div 2) \o Flat(parts, (lo + hi) \div 2 + 1, hi)

\* the scan stops at position at, which the subset does not hold
Stopped(toks, at) == [bad |-> TRUE, at |-> at, toks |-> toks]

\* the scan of src from the tokens all of its lines: up to the first
\* position the subset does not hold, or up to the end of the file
ScanOf(src, all, lines) ==
  IF \E j \in 1..Len(all) : all[j].k = "bad"
  THEN Stopped(SubSeq(all, 1, SetMin({j \in 1..Len(all) : all[j].k = "bad"}) - 1),
               all[SetMin({j \in 1..Len(all) : all[j].k = "bad"})].o + 1)
  ELSE [bad |-> FALSE, at |-> 0, toks |-> Append(all, Tok("eof", <<>>, Len(src), lines))]

ScanLines(src, lines) == ScanOf(src, Flat(lines, 1, Len(lines)), Len(lines))

Scan(src) == ScanLines(src, Lines(src, Newlines(src)))

\* the last token before position j that is no comment, 0 when there is none
PrevToken(all, j) ==
  IF {m \in 1..(j - 1) : all[m].k # "comment"} = {} THEN 0
  ELSE SetMax({m \in 1..(j - 1) : all[m].k # "comment"})

\* the first comment of the last group of comments before the token j:
\* comments on consecutive lines, none of them on the line of the token prev
LeadStart(all, prev, j) ==
  SetMin({m \in (prev + 1)..(j - 1) :
            /\ prev = 0 \/ all[m].l # all[prev].l
            /\ \A n \in m..(j - 2) : all[n + 1].l = all[n].l + 1})

CommentGroup(all, from, to) ==
  [nil |-> FALSE, Pos |-> TokPos(all[from]),
   lines |-> [n \in 1..(to - from + 1) |-> all[from + n - 1].l]]

\* parser.next: the last group of comments between the tokens prev and j
\* leads the token j when it ends on the line before it
LeadComment(all, prev, j) ==
  IF /\ j - 1 > prev
     /\ all[j - 1].l + 1 = all[j].l
     /\ (prev = 0 \/ all[j - 1].l # all[prev].l)
  THEN CommentGroup(all, LeadStart(all, prev, j), j - 1)
  ELSE NoComment

\* the line of the comment that stands between the token prev and the
\* semicolon j on the line of prev, 0 when there is none
LineComment(all, prev, j) ==
  IF all[j].k = "semi" /\ prev > 0 /\ j - 1 > prev /\ all[prev + 1].l = all[prev].l
  THEN all[prev + 1].l
  ELSE 0

\* the tokens with the comments that lead them and end their lines
WithComments(all) ==
  [j \in 1..Len(all) |->
     IF all[j].k = "comment" THEN all[j]
     ELSE [all[j] EXCEPT !.doc = LeadComment(all, PrevToken(all, j), j),
                         !.trail = LineComment(all, PrevToken(all, j), j)]]

IsToken(t) == t.k # "comment"

IsOpening(t) == t.k = "op" /\ t.v[1] \in {"(", "[", "{"}

IsClosing(t) == t.k = "op" /\ t.v[1] \in {")", "]", "}"}

\* the tokens with the number of brackets open after each
WithDepth(toks) ==
  [j \in 1..Len(toks) |->
     [toks[j] EXCEPT !.d = Cardinality({m \in 1..j : IsOpening(toks[m])})
                             - Cardinality({m \in 1..j : IsClosing(toks[m])})]]

\* the tokens the parser reads
Tokens(src) == WithDepth(SelectSeq(WithComments(Scan(src).toks), IsToken))

\* the outcomes of the parser on a piece of the source, the tokens lo..hi:
\* st is "ok" (the piece is of the subset; nodes are its nodes in the order
\* of ast.Walk, val what its reader needs of it), "error" (go/parser
\* reports an error) or "no" (outside the subset)
Parsed(nodes, val) == [st |-> "ok", nodes |-> nodes, val |-> val, empty |-> FALSE]

Outside == [st |-> "no", nodes |-> <<>>, val |-> <<>>, empty |-> FALSE]

SyntaxError == [st |-> "error", nodes |-> <<>>, val |-> <<>>, empty |-> FALSE]

\* nothing stands between a separator and the end of its list
NoElement == [st |-> "ok", nodes |-> <<>>, val |-> <<>>, empty |-> TRUE]

IsOp(toks, i, c) == toks[i].k = "op" /\ toks[i].v = <<c>>

IsKw(toks, i, word) == toks[i].k = "kw" /\ toks[i].v = word

IdentOf(t) == Ident(t.v, t.l)

\* the bracket that closes the one at j, and the one that the bracket at j closes
CloseOf(toks, j) == SetMin({m \in (j + 1)..Len(toks) : toks[m].d = toks[j].d - 1})

OpenOf(toks, j) == SetMax({m \in 1..(j - 1) : IsOpening(toks[m]) /\ toks[m].d = toks[j].d + 1})

\* the token j separates the entries of a list: a semicolon, or a comma,
\* outside the brackets of the entries
IsCut(p) == p.cut

Cuts(toks, lo, hi, sep) ==
  SelectSeq([j \in 1..(hi - lo + 1) |->
               [at |-> lo + j - 1,
                cut |-> /\ toks[lo + j - 1].d = toks[lo - 1].d
                        /\ IF sep = "semi" THEN toks[lo + j - 1].k = "semi"
                           ELSE IsOp(toks, lo + j - 1, sep)]],
            IsCut)

\* the entries of the list lo..hi that the cuts separate: the tokens
\* lo..hi of each and its separator sep, 0 when it has none
SegmentsOf(lo, hi, cuts) ==
  [n \in 1..(Len(cuts) + 1) |->
     [lo |-> IF n = 1 THEN lo ELSE cuts[n - 1].at + 1,
      hi |-> IF n > Len(cuts) THEN hi ELSE cuts[n].at - 1,
      sep |-> IF n > Len(cuts) THEN 0 ELSE cuts[n].at,
      last |-> n > Len(cuts)]]

Segments(toks, lo, hi, sep) == SegmentsOf(lo, hi, Cuts(toks, lo, hi, sep))

\* the nodes of the entries rs[lo..hi], one after the other
RECURSIVE NodesOf(_, _, _)
NodesOf(rs, lo, hi) ==
  IF lo > hi THEN <<>>
  ELSE IF lo = hi THEN rs[lo].nodes
  ELSE NodesOf(rs, lo, (lo + hi) \div 2) \o NodesOf(rs, (lo + hi) \div 2 + 1, hi)

IsEntry(r) == ~r.empty

\* a list is of the subset when its entries are; val are the entries
ListOf(rs) ==
  IF \E n \in 1..Len(rs) : rs[n].st # "ok" THEN Outside
  ELSE Parsed(NodesOf(rs, 1, Len(rs)), SelectSeq(rs, IsEntry))

\* an entry may be missing at the end of a list only: before the closing
\* bracket stands a separator, or nothing at all
MissingEntry(seg) == IF seg.last THEN NoElement ELSE Outside

\* ast.Walk on a *ast.CommentGroup: the group, then its comments
DocNodes(doc) ==
  IF doc.nil THEN <<>>
  ELSE <<Node(doc.Pos.Line)>> \o [n \in 1..Len(doc.lines) |-> Node(doc.lines[n])]

\* the comment on a line is a group of one comment
LineCommentNodes(line) == IF line = 0 THEN <<>> ELSE <<Node(line), Node(line)>>

\* the comment that ends the line of an entry, on the semicolon after it
TrailOf(toks, sep) == IF sep = 0 THEN 0 ELSE toks[sep].trail

\* what the chunker can tell of a type: an identifier, a pointer to an
\* identifier, an interface type, or another type
TypeForm(form, name) == [form |-> form, name |-> name]

OtherType == TypeForm("other", <<>>)

\* interface {}
InterfaceType == TypeForm("interface", <<>>)

RECURSIVE ParseType(_, _, _)

\* *T
StarType(star, elt) ==
  IF elt.st # "ok" THEN Outside
  ELSE Parsed(<<Node(star.l)>> \o elt.nodes,
              IF elt.val.form = "ident" THEN TypeForm("star", elt.val.name) ELSE OtherType)

\* []T
SliceType(lbrack, elt) ==
  IF elt.st # "ok" THEN Outside
  ELSE Parsed(<<Node(lbrack.l)>> \o elt.nodes, OtherType)

\* struct { fields }: the *ast.StructType and its *ast.FieldList
StructType(struct, lbrace, fields) ==
  IF fields.st # "ok" THEN Outside
  ELSE Parsed(<<Node(struct.l), Node(lbrace.l)>> \o fields.nodes, OtherType)

\* ast.Walk on a *ast.Field of a struct: Doc, Names, Type, Comment
FieldDecl(name, type, comment) ==
  IF type.st # "ok" THEN Outside
  ELSE Parsed(<<Node(name.l)>> \o DocNodes(name.doc) \o <<IdentOf(name)>> \o type.nodes
                \o LineCommentNodes(comment), <<>>)

\* parser.parseFieldDecl: one name and a type
ParseFieldDecl(toks, seg) ==
  IF seg.lo > seg.hi THEN MissingEntry(seg)
  ELSE IF toks[seg.lo].k # "ident" THEN Outside
  ELSE FieldDecl(toks[seg.lo], ParseType(toks, seg.lo + 1, seg.hi), TrailOf(toks, seg.sep))

FieldDecls(toks, segs) == ListOf([n \in 1..Len(segs) |-> ParseFieldDecl(toks, segs[n])])

\* parser.parseType on the types of the subset: T, p.T, *T, []T,
\* struct { ... } and interface {}
ParseType(toks, lo, hi) ==
  IF lo > hi THEN Outside
  ELSE IF toks[lo].k = "ident"
  THEN IF lo = hi THEN Parsed(<<IdentOf(toks[lo])>>, TypeForm("ident", toks[lo].v))
       ELSE IF hi = lo + 2 /\ IsOp(toks, lo + 1, ".") /\ toks[hi].k = "ident"
       THEN Parsed(<<Node(toks[lo].l), IdentOf(toks[lo]), IdentOf(toks[hi])>>, OtherType)
       ELSE Outside
  ELSE IF IsOp(toks, lo, "*") THEN StarType(toks[lo], ParseType(toks, lo + 1, hi))
  ELSE IF IsOp(toks, lo, "[") /\ IsOp(toks, lo + 1, "]")
  THEN SliceType(toks[lo], ParseType(toks, lo + 2, hi))
  ELSE IF IsKw(toks, lo, <<"s","t","r","u","c","t">>) /\ IsOp(toks, lo + 1, "{") /\ CloseOf(toks, lo + 1) = hi
  THEN StructType(toks[lo], toks[lo + 1],
                  FieldDecls(toks, Segments(toks, lo + 2, hi - 1, "semi")))
  ELSE IF /\ IsKw(toks, lo, <<"i","n","t","e","r","f","a","c","e">>)
          /\ hi = lo + 2 /\ IsOp(toks, lo + 1, "{") /\ IsOp(toks, hi, "}")
  THEN Parsed(<<Node(toks[lo].l), Node(toks[lo + 1].l)>>, InterfaceType)
  ELSE Outside

RECURSIVE ParseExpr(_, _, _)

\* an argument of a call
ParseArg(toks, seg) ==
  IF seg.lo > seg.hi THEN MissingEntry(seg) ELSE ParseExpr(toks, seg.lo, seg.hi)

Args(toks, segs) == ListOf([n \in 1..Len(segs) |-> ParseArg(toks, segs[n])])

\* f(args): the *ast.CallExpr stands where its function starts
CallExpr(line, fun, args) ==
  IF fun.st # "ok" \/ args.st # "ok" THEN Outside
  ELSE Parsed(<<Node(line)>> \o fun.nodes \o args.nodes, TRUE)

\* x.Sel: the *ast.SelectorExpr stands where x starts
SelectorExpr(line, x, sel) ==
  IF x.st # "ok" THEN Outside
  ELSE Parsed(<<Node(line)>> \o x.nodes \o <<IdentOf(sel)>>, FALSE)

\* parser.parseExpr on the expressions of the subset: identifiers, integer
\* and string literals, selectors x.Sel and calls f(args); val tells
\* whether the expression is a call
ParseExpr(toks, lo, hi) ==
  IF lo > hi THEN Outside
  ELSE IF lo = hi
  THEN IF toks[lo].k = "ident" THEN Parsed(<<IdentOf(toks[lo])>>, FALSE)
       ELSE IF toks[lo].k \in {"int", "string"} THEN Parsed(<<Node(toks[lo].l)>>, FALSE)
       ELSE Outside
  ELSE IF IsOp(toks, hi, ")")
  THEN CallExpr(toks[lo].l, ParseExpr(toks, lo, OpenOf(toks, hi) - 1),
                Args(toks, Segments(toks, OpenOf(toks, hi) + 1, hi - 1, ",")))
  ELSE IF toks[hi].k = "ident" /\ IsOp(toks, hi - 1, ".")
  THEN SelectorExpr(toks[lo].l, ParseExpr(toks, lo, hi - 2), toks[hi])
  ELSE Outside

\* return x
ReturnStmt(return, result) ==
  IF result.st # "ok" THEN Outside
  ELSE Parsed(<<Node(return.l)>> \o result.nodes, <<>>)

\* a call as a statement
ExprStmt(line, x) ==
  IF x.st # "ok" THEN Outside
  ELSE IF ~x.val THEN Outside
  ELSE Parsed(<<Node(line)>> \o x.nodes, <<>>)

\* parser.parseStmt on the statements of the subset: return, return x, and
\* calls
ParseStmt(toks, seg) ==
  IF seg.lo > seg.hi THEN MissingEntry(seg)
  ELSE IF IsKw(toks, seg.lo, <<"r","e","t","u","r","n">>)
  THEN IF seg.lo = seg.hi THEN Parsed(<<Node(toks[seg.lo].l)>>, <<>>)
       ELSE ReturnStmt(toks[seg.lo], ParseExpr(toks, seg.lo + 1, seg.hi))
  ELSE ExprStmt(toks[seg.lo].l, ParseExpr(toks, seg.lo, seg.hi))

StmtList(toks, segs) == ListOf([n \in 1..Len(segs) |-> ParseStmt(toks, segs[n])])

\* the *ast.BlockStmt and its statements
BlockStmt(lbrace, list) ==
  IF list.st # "ok" THEN Outside
  ELSE Parsed(<<Node(lbrace.l)>> \o list.nodes, <<>>)

\* parser.parseBody: the block lo..hi
ParseBody(toks, lo, hi) ==
  BlockStmt(toks[lo], StmtList(toks, Segments(toks, lo + 1, hi - 1, "semi")))

\* ast.Walk on the *ast.Field of a parameter: its name and its type
ParamDecl(name, type) ==
  IF type.st # "ok" THEN Outside
  ELSE Parsed(<<Node(name.l), IdentOf(name)>> \o type.nodes, <<>>)

\* a parameter: one name and a type
ParseParamDecl(toks, seg) ==
  IF seg.lo > seg.hi THEN MissingEntry(seg)
  ELSE IF toks[seg.lo].k # "ident" THEN Outside
  ELSE ParamDecl(toks[seg.lo], ParseType(toks, seg.lo + 1, seg.hi))

ParameterList(toks, segs) == ListOf([n \in 1..Len(segs) |-> ParseParamDecl(toks, segs[n])])

\* the *ast.FieldList of the parameters
ParamList(lparen, list) ==
  IF list.st # "ok" THEN Outside
  ELSE Parsed(<<Node(lparen.l)>> \o list.nodes, <<>>)

\* parser.parseParameters: the parameters in the parentheses lo..hi
ParseParameters(toks, lo, hi) ==
  ParamList(toks[lo], ParameterList(toks, Segments(toks, lo + 1, hi - 1, ",")))

\* decl.Recv.List[0].Type as processFuncDecl reads it
RecvOf(type) ==
  IF type.val.form = "ident" THEN Recv(FALSE, type.val.name)
  ELSE IF type.val.form = "star" THEN Recv(TRUE, type.val.name)
  ELSE Recv(FALSE, <<>>)

\* the *ast.FieldList of the receiver and its one *ast.Field
RecvList(lparen, names, line, type) ==
  IF type.st # "ok" THEN Outside
  ELSE Parsed(<<Node(lparen.l), Node(line)>> \o names \o type.nodes, RecvOf(type))

\* the receiver in the parentheses lo..hi: (T) or (t T), one entry
ParseRecv(toks, lo, hi) ==
  IF hi = lo + 1 THEN Outside
  ELSE IF toks[lo + 1].k = "ident" /\ lo + 2 < hi /\ ~IsOp(toks, lo + 2, ".")
  THEN RecvList(toks[lo], <<IdentOf(toks[lo + 1])>>, toks[lo + 1].l,
                ParseType(toks, lo + 2, hi - 1))
  ELSE RecvList(toks[lo], <<>>, toks[lo + 1].l, ParseType(toks, lo + 1, hi - 1))

\* one result without parentheses: the *ast.FieldList and its *ast.Field
\* stand where the type starts
ResultList(line, type) ==
  IF type.st # "ok" THEN Outside
  ELSE Parsed(<<Node(line), Node(line)>> \o type.nodes, <<>>)

\* parser.parseResult on the tokens lo..hi after the parameters
ParseResult(toks, lo, hi) ==
  IF lo > hi THEN Parsed(<<>>, <<>>) ELSE ResultList(toks[lo].l, ParseType(toks, lo, hi))

\* ast.Walk on a *ast.FuncDecl: Doc, Recv, Name, Type, Body; the
\* *ast.FuncType stands at the keyword
FuncOf(func, recv, name, params, result, body, end) ==
  IF recv.st # "ok" \/ params.st # "ok" \/ result.st # "ok" \/ body.st # "ok" THEN Outside
  ELSE Parsed(<<Node(func.l)>> \o DocNodes(func.doc) \o recv.nodes
                \o <<IdentOf(name), Node(func.l)>> \o params.nodes \o result.nodes
                \o body.nodes,
              [decl |-> FuncDecl(name.v, recv.val, TokPos(func), end), paths |-> <<>>])

\* the declaration ends with a body: with a closing brace that closes
\* neither a struct nor an interface
HasBody(toks, pc, hi) ==
  /\ pc < hi
  /\ IsOp(toks, hi, "}")
  /\ toks[OpenOf(toks, hi) - 1].k # "kw"

\* after the parameters, which end at pc: the result and the body; a
\* declaration without a body ends with its type
FuncType(toks, func, recv, name, pc, hi) ==
  IF HasBody(toks, pc, hi)
  THEN FuncOf(func, recv, toks[name], ParseParameters(toks, name + 1, pc),
              ParseResult(toks, pc + 1, OpenOf(toks, hi) - 1),
              ParseBody(toks, OpenOf(toks, hi), hi), TokEnd(toks[hi]))
  ELSE FuncOf(func, recv, toks[name], ParseParameters(toks, name + 1, pc),
              ParseResult(toks, pc + 1, hi), Parsed(<<>>, <<>>), TokEnd(toks[hi]))

\* the name at the token name and the parameters after the receiver
FuncName(toks, func, recv, name, hi) ==
  IF name + 2 > hi THEN Outside
  ELSE IF toks[name].k # "ident" THEN Outside
  ELSE IF ~IsOp(toks, name + 1, "(") THEN Outside
  ELSE FuncType(toks, func, recv, name, CloseOf(toks, name + 1), hi)

\* parser.parseFuncDecl on the tokens lo..hi, lo the keyword
ParseFuncDecl(toks, lo, hi) ==
  IF lo = hi THEN Outside
  ELSE IF IsOp(toks, lo + 1, "(")
  THEN FuncName(toks, toks[lo], ParseRecv(toks, lo + 1, CloseOf(toks, lo + 1)),
                CloseOf(toks, lo + 1) + 1, hi)
  ELSE FuncName(toks, toks[lo], Parsed(<<>>, NoRecv), lo + 1, hi)

\* parser.isValidImport on the paths of the subset
ValidImport(lit) ==
  /\ Len(lit) > 2
  /\ \A k \in 2..(Len(lit) - 1) : IsWord(lit[k]) \/ lit[k] \in {"+", "-", ".", "/", "@", "~"}

\* what the chunker reads of a spec: the names it declares, the path it
\* imports, and whether its type is an interface type
SpecOf(names, paths, interface) == [names |-> names, paths |-> paths, interface |-> interface]

\* parser.parseImportSpec: a path, or a name or a dot and a path
ImportSpec(toks, lo, hi, doc) ==
  IF /\ hi = lo + 1
     /\ toks[lo].k = "ident" \/ IsOp(toks, lo, ".")
     /\ toks[hi].k = "string"
     /\ ValidImport(toks[hi].v)
  THEN Parsed(<<Node(toks[lo].l)>> \o doc \o <<IdentOf(toks[lo]), Node(toks[hi].l)>>,
              SpecOf(<<>>, <<toks[hi].v>>, FALSE))
  ELSE IF hi = lo /\ toks[lo].k = "string" /\ ValidImport(toks[lo].v)
  THEN Parsed(<<Node(toks[lo].l)>> \o doc \o <<Node(toks[lo].l)>>, SpecOf(<<>>, <<toks[lo].v>>, FALSE))
  ELSE Outside

\* parser.parseTypeSpec: a name and a type
TypeSpec(name, doc, type) ==
  IF type.st # "ok" THEN Outside
  ELSE Parsed(<<Node(name.l)>> \o doc \o <<IdentOf(name)>> \o type.nodes,
              SpecOf(<<name.v>>, <<>>, type.val = InterfaceType))

\* a value spec: name T, name = x or name T = x
ValueDecl(name, doc, type, x) ==
  IF type.st # "ok" \/ x.st # "ok" THEN Outside
  ELSE Parsed(<<Node(name.l)>> \o doc \o <<IdentOf(name)>> \o type.nodes \o x.nodes,
              SpecOf(<<name.v>>, <<>>, FALSE))

\* the tokens = among lo..hi
Assigns(toks, lo, hi) == {j \in lo..hi : IsOp(toks, j, "=")}

\* parser.parseValueSpec: one name with a type, a value or both; a
\* variable may end with its type, a constant may not
ValueSpec(toks, lo, hi, keyword, doc, eq) ==
  IF toks[lo].k # "ident" THEN Outside
  ELSE IF eq = {}
  THEN IF keyword = <<"v","a","r">>
       THEN ValueDecl(toks[lo], doc, ParseType(toks, lo + 1, hi), Parsed(<<>>, <<>>))
       ELSE Outside
  ELSE IF Cardinality(eq) > 1 THEN Outside
  ELSE IF SetMin(eq) = lo + 1
  THEN ValueDecl(toks[lo], doc, Parsed(<<>>, <<>>), ParseExpr(toks, lo + 2, hi))
  ELSE ValueDecl(toks[lo], doc, ParseType(toks, lo + 1, SetMin(eq) - 1),
                ParseExpr(toks, SetMin(eq) + 1, hi))

\* the spec lo..hi of a declaration with the keyword keyword; doc are the
\* nodes of its Doc
ParseSpec(toks, lo, hi, keyword, doc) ==
  IF lo > hi THEN Outside
  ELSE IF keyword = <<"i","m","p","o","r","t">> THEN ImportSpec(toks, lo, hi, doc)
  ELSE IF keyword = <<"t","y","p","e">>
  THEN IF toks[lo].k = "ident" THEN TypeSpec(toks[lo], doc, ParseType(toks, lo + 1, hi))
       ELSE Outside
  ELSE ValueSpec(toks, lo, hi, keyword, doc, Assigns(toks, lo, hi))

\* a spec with the comment that ends its line
WithLineComment(spec, line) ==
  IF spec.st # "ok" THEN Outside
  ELSE Parsed(spec.nodes \o LineCommentNodes(line), spec.val)

\* a spec of a group; each has its own Doc
ParseGroupSpec(toks, seg, keyword) ==
  IF seg.lo > seg.hi THEN MissingEntry(seg)
  ELSE WithLineComment(ParseSpec(toks, seg.lo, seg.hi, keyword, DocNodes(toks[seg.lo].doc)),
                       TrailOf(toks, seg.sep))

Specs(toks, segs, keyword) ==
  ListOf([n \in 1..Len(segs) |-> ParseGroupSpec(toks, segs[n], keyword)])

\* the names and the paths of the specs rs[lo..hi]
RECURSIVE NamesOf(_, _, _)
NamesOf(rs, lo, hi) ==
  IF lo > hi THEN <<>>
  ELSE IF lo = hi THEN rs[lo].val.names
  ELSE NamesOf(rs, lo, (lo + hi) \div 2) \o NamesOf(rs, (lo + hi) \div 2 + 1, hi)

RECURSIVE PathsOf(_, _, _)
PathsOf(rs, lo, hi) ==
  IF lo > hi THEN <<>>
  ELSE IF lo = hi THEN rs[lo].val.paths
  ELSE PathsOf(rs, lo, (lo + hi) \div 2) \o PathsOf(rs, (lo + hi) \div 2 + 1, hi)

\* ast.Walk on a *ast.GenDecl: Doc, Specs.  A group ends after its closing
\* parenthesis
GroupDecl(keyword, group, end) ==
  IF group.st # "ok" THEN Outside
  ELSE Parsed(<<Node(keyword.l)>> \o DocNodes(keyword.doc) \o group.nodes,
              [decl |-> GenDecl(keyword.v, NamesOf(group.val, 1, Len(group.val)),
                                \E n \in 1..Len(group.val) : group.val[n].val.interface,
                                TokPos(keyword), end),
               paths |-> PathsOf(group.val, 1, Len(group.val))])

\* a declaration of one spec ends with the spec; the spec has no Doc of its own
SingleDecl(keyword, spec, end) ==
  IF spec.st # "ok" THEN Outside
  ELSE Parsed(<<Node(keyword.l)>> \o DocNodes(keyword.doc) \o spec.nodes,
              [decl |-> GenDecl(keyword.v, spec.val.names, spec.val.interface,
                                TokPos(keyword), end),
               paths |-> spec.val.paths])

\* parser.parseGenDecl on the tokens lo..hi, lo the keyword, sep the
\* semicolon after them
ParseGenDecl(toks, lo, hi, sep) ==
  IF lo = hi THEN Outside
  ELSE IF IsOp(toks, lo + 1, "(")
  THEN IF CloseOf(toks, lo + 1) # hi THEN Outside
       ELSE GroupDecl(toks[lo],
                      Specs(toks, Segments(toks, lo + 2, hi - 1, "semi"), toks[lo].v),
                      TokEnd(toks[hi]))
  ELSE SingleDecl(toks[lo],
                  WithLineComment(ParseSpec(toks, lo + 1, hi, toks[lo].v, <<>>),
                                  TrailOf(toks, sep)),
                  TokEnd(toks[hi]))

\* parser.parseDecl on a declaration of the file
ParseDecl(toks, seg) ==
  IF seg.lo > seg.hi THEN MissingEntry(seg)
  ELSE IF seg.last THEN Outside
  ELSE IF IsKw(toks, seg.lo, <<"f","u","n","c">>) THEN ParseFuncDecl(toks, seg.lo, seg.hi)
  ELSE ParseGenDecl(toks, seg.lo, seg.hi, seg.sep)

Decls(toks, segs) == ListOf([n \in 1..Len(segs) |-> ParseDecl(toks, segs[n])])

\* a declaration starts with no declaration keyword
NoDeclaration(toks, seg) ==
  /\ seg.lo <= seg.hi
  /\ ~(toks[seg.lo].k = "kw" /\ toks[seg.lo].v \in {<<"i","m","p","o","r","t">>, <<"c","o","n","s","t">>, <<"t","y","p","e">>, <<"v","a","r">>, <<"f","u","n","c">>})

\* the declaration n is an import after a declaration that is none
LateImport(toks, segs, n) ==
  /\ segs[n].lo <= segs[n].hi
  /\ IsKw(toks, segs[n].lo, <<"i","m","p","o","r","t">>)
  /\ \E m \in 1..(n - 1) : ~IsKw(toks, segs[m].lo, <<"i","m","p","o","r","t">>)

\* the file of the package clause and the declarations decls
FileOf(toks, decls) ==
  IF decls.st # "ok" THEN Outside
  ELSE Parsed(<<>>,
              [Name |-> toks[2].v, Package |-> TokPos(toks[1]), NameEnd |-> TokEnd(toks[2]),
               Doc |-> [nil |-> toks[1].doc.nil, Pos |-> toks[1].doc.Pos],
               Imports |-> PathsOf(decls.val, 1, Len(decls.val)),
               Decls |-> [n \in 1..Len(decls.val) |-> decls.val[n].val.decl],
               Nodes |-> <<Node(toks[1].l)>> \o DocNodes(toks[1].doc) \o <<IdentOf(toks[2])>>
                           \o decls.nodes])

\* parser.parseFile, the declarations segs: each ends with a semicolon
\* outside all brackets and starts with its keyword, and the imports come
\* before the other declarations
ParseDecls(toks, segs) ==
  IF \E n \in 1..Len(segs) : NoDeclaration(toks, segs[n]) \/ LateImport(toks, segs, n)
  THEN SyntaxError
  ELSE FileOf(toks, Decls(toks, segs))

\* parser.parseFile, the package clause: the keyword, a name, a semicolon.
\* The name may be the blank identifier: the parser reports it only in the
\* mode DeclarationErrors, and the chunker asks for ParseComments alone.
ParseTokens(toks) ==
  IF ~IsKw(toks, 1, <<"p","a","c","k","a","g","e">>) THEN SyntaxError
  ELSE IF toks[2].k # "ident" THEN SyntaxError
  ELSE IF toks[3].k # "semi" THEN SyntaxError
  ELSE ParseDecls(toks, Segments(toks, 4, Len(toks) - 1, "semi"))

\* the brackets pair up: none closes what is not open, each closing one
\* closes an opening one of its kind, and none stays open
Balanced(toks) ==
  /\ \A j \in 1..Len(toks) : toks[j].d >= 0
  /\ toks[Len(toks)].d = 0
  /\ \A j \in 1..Len(toks) :
       IsClosing(toks[j]) =>
         <<toks[OpenOf(toks, j)].v[1], toks[j].v[1]>> \in {<<"(", ")">>, <<"[", "]">>, <<"{", "}">>}

\* the source does not start with a package clause: its first token is
\* not the keyword, or it starts with a character that starts no comment
NoPackageClause(src, scan) ==
  IF \E j \in 1..Len(scan.toks) : scan.toks[j].k # "comment"
  THEN ~IsKw(scan.toks, SetMin({j \in 1..Len(scan.toks) : scan.toks[j].k # "comment"}), <<"p","a","c","k","a","g","e">>)
  ELSE scan.bad /\ src[scan.at] # "/"

\* go/parser on the scanned source: "error" where it reports an error for
\* one of these reasons: no package clause, a bracket without its
\* counterpart, a package clause without a name or with more than a name, a
\* declaration that starts with no declaration keyword, an import after
\* another declaration; the parsed file where the source is of the subset;
\* "no" elsewhere
GoSyntax(src, scan, toks) ==
  IF NoPackageClause(src, scan) THEN SyntaxError
  ELSE IF scan.bad THEN Outside
  ELSE IF ~Balanced(toks) THEN SyntaxError
  ELSE ParseTokens(toks)

\* the contents ParseFile is defined on
GoSubset(content) == GoSyntax(content, Scan(content), Tokens(content)).st # "no"

\* parser.ParseFile(fset, filePath, content, parser.ParseComments)
ParseFile(content) ==
  CASE GoSyntax(content, Scan(content), Tokens(content)).st = "error" ->
         [err |-> TRUE, file |-> <<>>]
    [] GoSyntax(content, Scan(content), Tokens(content)).st = "ok" ->
         [err |-> FALSE, file |-> GoSyntax(content, Scan(content), Tokens(content)).val]

\* strings.Trim(s, "\"")
TrimQuotes(s) ==
  IF {k \in 1..Len(s) : s[k] # "\""} = {} THEN <<>>
  ELSE SubSeq(s, SetMin({k \in 1..Len(s) : s[k] # "\""}),
              SetMax({k \in 1..Len(s) : s[k] # "\""}))

extractImports(file) == [k \in 1..Len(file.Imports) |-> TrimQuotes(file.Imports[k])]

SymbolReference(name, chunkID, filePath, line) ==
  [Name |-> name, ChunkID |-> chunkID, FilePath |-> filePath, Line |-> line]

\* part_004 130-140 and 174-184: the receiver is *T or T with T an identifier
receiverType(decl) == decl.Recv.ident

\* symbolName without the receiver type
symbolNameBare(decl) == decl.Name

\* part_004 123-147
symbolName(decl) ==
  IF decl.Recv.nil \/ receiverType(decl) = <<>> THEN decl.Name
  ELSE receiverType(decl) \o <<".">> \o decl.Name

\* the chunk of the bytes content[start.Offset:end.Offset]
GoChunkOf(filePath, text, startPos, endPos, symbols, imports) ==
  Chunk(GenerateID(<<filePath, text>>), filePath, startPos.Line, endPos.Line,
        text, LangGo, symbols, imports)

Slice(content, startPos, endPos) == SubSeq(content, startPos.Offset + 1, endPos.Offset)

\* part_004 163-195: the definition of the function and the reference to its receiver type
DefineFunc(table, decl, chunk) ==
  IF ~decl.Recv.nil /\ receiverType(decl) # <<>>
  THEN AddReference(AddDefinition(table, symbolName(decl),
                                  SymbolDefinition(symbolName(decl), chunk, "function")),
                    receiverType(decl),
                    SymbolReference(receiverType(decl), chunk.ID, chunk.FilePath,
                                    chunk.StartLine))
  ELSE AddDefinition(table, symbolName(decl),
                     SymbolDefinition(symbolName(decl), chunk, "function"))

\* s holds the chunks Chunk has so far and the symbol table
Emit(s, chunk, table) == [chunks |-> Append(s.chunks, chunk), table |-> table]

processFuncDecl(s, decl, filePath, content, imports) ==
  Emit(s,
       GoChunkOf(filePath, Slice(content, decl.Pos, decl.End), decl.Pos, decl.End,
                 <<symbolName(decl)>>, imports),
       DefineFunc(s.table, decl,
                  GoChunkOf(filePath, Slice(content, decl.Pos, decl.End), decl.Pos,
                            decl.End, <<symbolName(decl)>>, imports)))

\* declType telling the interface types from the other types
declTypeOfSpec(decl) ==
  CASE decl.Tok = <<"t","y","p","e">> -> IF decl.Interface THEN "interface" ELSE "type"
    [] decl.Tok = <<"c","o","n","s","t">> -> "const"
    [] decl.Tok = <<"v","a","r">> -> "var"

\* part_004 216-242: the declared type of the symbols is the token of the declaration
declType(decl) ==
  CASE decl.Tok = <<"t","y","p","e">> -> "type"
    [] decl.Tok = <<"c","o","n","s","t">> -> "const"
    [] decl.Tok = <<"v","a","r">> -> "var"

\* processGenDecl and part_004 83-88: a declaration without names gives no chunk
processGenDecl(s, decl, filePath, content, imports) ==
  IF Len(decl.Names) = 0 \/ Slice(content, decl.Pos, decl.End) = <<>> THEN s
  ELSE Emit(s,
            GoChunkOf(filePath, Slice(content, decl.Pos, decl.End), decl.Pos, decl.End,
                      decl.Names, imports),
            AddDefinitions(s.table, decl.Names,
                           GoChunkOf(filePath, Slice(content, decl.Pos, decl.End),
                                     decl.Pos, decl.End, decl.Names, imports),
                           declType(decl)))

\* part_004 74-90: the declarations k.. of the file
RECURSIVE processDecls(_, _, _, _, _, _)
processDecls(s, decls, k, filePath, content, imports) ==
  IF k > Len(decls) THEN s
  ELSE IF decls[k].node = "FuncDecl"
  THEN processDecls(processFuncDecl(s, decls[k], filePath, content, imports),
                    decls, k + 1, filePath, content, imports)
  ELSE IF decls[k].Tok \in {<<"t","y","p","e">>, <<"c","o","n","s","t">>, <<"v","a","r">>}
  THEN processDecls(processGenDecl(s, decls[k], filePath, content, imports),
                    decls, k + 1, filePath, content, imports)
  ELSE processDecls(s, decls, k + 1, filePath, content, imports)

\* part_004 280-286: the positions of the import declarations
importDecls(file) ==
  {k \in 1..Len(file.Decls) : file.Decls[k].node = "GenDecl" /\ file.Decls[k].Tok = <<"i","m","p","o","r","t">>}

\* processImportsSection and part_004 93-96: the first import declaration, if any
processImportsSection(s, file, filePath, content) ==
  IF importDecls(file) = {}
     \/ Slice(content, file.Decls[SetMin(importDecls(file))].Pos,
              file.Decls[SetMin(importDecls(file))].End) = <<>>
  THEN s
  ELSE Emit(s,
            GoChunkOf(filePath,
                      Slice(content, file.Decls[SetMin(importDecls(file))].Pos,
                            file.Decls[SetMin(importDecls(file))].End),
                      file.Decls[SetMin(importDecls(file))].Pos,
                      file.Decls[SetMin(importDecls(file))].End, <<<<"i","m","p","o","r","t","s">>>>, <<>>),
            s.table)

\* part_004 320-328: the package section starts at the file's doc comment if it has one
packageStart(file) == IF file.Doc.nil THEN file.Package ELSE file.Doc.Pos

\* processPackageSection and part_004 99-102
processPackageSection(s, file, filePath, content) ==
  IF Slice(content, packageStart(file), file.NameEnd) = <<>> THEN s
  ELSE Emit(s,
            GoChunkOf(filePath, Slice(content, packageStart(file), file.NameEnd),
                      packageStart(file), file.NameEnd, <<file.Name>>, <<>>),
            s.table)

\* the empty string, which is no digest
EmptyString == [hex |-> [empty |-> TRUE]]

\* part_004 395-400: the chunks whose lines hold the line
chunksAt(chunks, line) ==
  {k \in 1..Len(chunks) : line >= chunks[k].StartLine /\ line <= chunks[k].EndLine}

currentChunkAt(v, chunks, line) ==
  IF chunksAt(chunks, line) = {} THEN v.currentChunk
  ELSE chunks[SetMin(chunksAt(chunks, line))].ID

\* part_004 403-423, with currentChunk already moved to the node's line
recordReference(v, node, filePath) ==
  IF /\ node.Ident # <<>>
     /\ ~(isBasicType(node.Ident) \/ isKeyword(node.Ident))
     /\ node.Ident \in DOMAIN v.table.Definitions
     /\ v.currentChunk # EmptyString
  THEN [v EXCEPT !.table = AddReference(@, node.Ident,
                             SymbolReference(node.Ident, v.currentChunk, filePath,
                                             node.Line))]
  ELSE v

\* referenceVisitor.Visit
Visit(v, node, chunks, filePath) ==
  recordReference([v EXCEPT !.currentChunk = currentChunkAt(v, chunks, node.Line)],
                  node, filePath)

\* Visit returns nil on a nil node, and Nodes holds none
NoVisitor == [nil |-> TRUE]

\* ast.Walk(visitor, file) on the nodes lo..hi, in their order: it goes on
\* with the visitor that Visit returns, while that is one
RECURSIVE Walk(_, _, _, _, _, _)
Walk(v, nodes, lo, hi, chunks, filePath) ==
  IF v = NoVisitor \/ lo > hi THEN v
  ELSE IF lo = hi THEN Visit(v, nodes[lo], chunks, filePath)
  ELSE Walk(Walk(v, nodes, lo, (lo + hi) \div 2, chunks, filePath),
            nodes, (lo + hi) \div 2 + 1, hi, chunks, filePath)

\* collectReferences: the visitor's filePath is the package name of the file
collectReferences(s, file) ==
  [chunks |-> s.chunks,
   table |-> Walk([currentChunk |-> EmptyString, table |-> s.table],
                  file.Nodes, 1, Len(file.Nodes), s.chunks, file.Name).table]

\* fallbackIter with StartLine counted from 0
fallbackIterZeroBased(s, filePath, lines, i, end) ==
  Emit(s,
       Chunk(GenerateID(<<filePath, Join(SubSeq(lines, i + 1, end), NL)>>), filePath,
             i, end, Join(SubSeq(lines, i + 1, end), NL), LangGo, <<>>, <<>>),
       s.table)

\* the body of "for i := 0; i < len(lines); i += options.MaxChunkSize" in fallbackChunking
fallbackIter(s, filePath, lines, i, end) ==
  Emit(s,
       Chunk(GenerateID(<<filePath, Join(SubSeq(lines, i + 1, end), NL)>>), filePath,
             i + 1, end, Join(SubSeq(lines, i + 1, end), NL), LangGo, <<>>, <<>>),
       s.table)

RECURSIVE fallbackLoop(_, _, _, _, _)
fallbackLoop(s, filePath, lines, i, options) ==
  IF i >= Len(lines) THEN s
  ELSE fallbackLoop(fallbackIter(s, filePath, lines, i,
                                 IF i + options.MaxChunkSize > Len(lines) THEN Len(lines)
                                 ELSE i + options.MaxChunkSize),
                    filePath, lines, i + options.MaxChunkSize, options)

\* GoChunker.fallbackChunking, for MaxChunkSize >= 1
fallbackChunking(filePath, content, table, options) ==
  fallbackLoop([chunks |-> <<>>, table |-> table], filePath, Split(content, NL), 0, options)

\* part_004 65-107: Chunk on a file that parsed
chunkFile(file, filePath, content, table) ==
  collectReferences(
    processPackageSection(
      processImportsSection(
        processDecls([chunks |-> <<>>, table |-> table], file.Decls, 1, filePath,
                     content, extractImports(file)),
        file, filePath, content),
      file, filePath, content),
    file)

\* GoChunker.Chunk: the chunks it returns and the symbol table it leaves
GoChunk(filePath, content, table, options) ==
  IF ParseFile(content).err THEN fallbackChunking(filePath, content, table, options)
  ELSE chunkFile(ParseFile(content).file, filePath, content, table)

(***************************************************************************)
(* SymbolTable.FindRelatedChunks (internal/model/symbol.go).  The map      *)
(* relatedChunks is a function from the candidate IDs to their strengths.  *)
(***************************************************************************)
RelationWeak == 1

RelationMedium == 5

RelationStrong == 10

maxRelations == 10

extractPackageName(filePath) == Base(Dir(filePath))

extractPackageNameFromImport(importPath) == Base(importPath)

AllChunks(st) == {st.Chunks[id] : id \in DOMAIN st.Chunks}

\* the chunks holding the references of a symbol, and those holding its definitions
ReferenceChunks(st, symbol) == {ref.ChunkID : ref \in SeqToSet(MapGet(st.References, symbol))}

DefinitionChunks(st, symbol) == {def.ChunkID : def \in SeqToSet(MapGet(st.Definitions, symbol))}

\* symbol.go 114-121: symbols defined in this chunk and referenced elsewhere
referencedElsewhere(st, chunk) ==
  UNION {ReferenceChunks(st, chunk.Symbols[k]) : k \in 1..Len(chunk.Symbols)}

\* symbol.go 124-142: symbols referenced in this chunk but defined elsewhere
definedElsewhere(st, chunk) ==
  UNION {DefinitionChunks(st, symbol) :
           symbol \in {s \in DOMAIN st.Definitions : chunk.ID \in ReferenceChunks(st, s)}}

\* typeOfMethod looking up the whole symbol "Type.Method"
typeOfMethodWhole(st, chunk) ==
  UNION {DefinitionChunks(st, chunk.Symbols[k]) :
           k \in {j \in 1..Len(chunk.Symbols) :
                    /\ Contains(chunk.Symbols[j], <<".">>)
                    /\ Len(Split(chunk.Symbols[j], ".")) = 2}}

\* symbol.go 148-162: the type of a method "Type.Method" of this chunk
typeOfMethod(st, chunk) ==
  UNION {DefinitionChunks(st, Split(chunk.Symbols[k], ".")[1]) :
           k \in {j \in 1..Len(chunk.Symbols) :
                    /\ Contains(chunk.Symbols[j], <<".">>)
                    /\ Len(Split(chunk.Symbols[j], ".")) = 2}}

\* symbol.go 165-176: the methods of a type of this chunk
methodsOfType(st, chunk) ==
  UNION {DefinitionChunks(st, methodSymbol) :
           methodSymbol \in {s \in DOMAIN st.Definitions :
                               \E k \in 1..Len(chunk.Symbols) :
                                 HasPrefix(s, chunk.Symbols[k] \o <<".">>)}}

\* symbol.go 183-186: this chunk defines an interface
definesInterface(st, chunk) ==
  \E k \in 1..Len(chunk.Symbols) :
    \E def \in SeqToSet(MapGet(st.Definitions, chunk.Symbols[k])) :
      def.Type = "interface" /\ def.ChunkID = chunk.ID

\* symbol.go 189-202: the methods whose name occurs in the interface
implementers(st, chunk) ==
  IF definesInterface(st, chunk)
  THEN UNION {DefinitionChunks(st, methodSymbol) :
                methodSymbol \in {s \in DOMAIN st.Definitions :
                                    /\ Contains(s, <<".">>)
                                    /\ Contains(chunk.Content, Split(s, ".")[2])}}
  ELSE {}

\* symbol.go 210-221: the chunks of the packages this chunk imports
importedPackages(st, chunk) ==
  {other.ID : other \in
     {c \in AllChunks(st) :
        \E k \in 1..Len(chunk.Imports) :
          extractPackageNameFromImport(chunk.Imports[k]) = extractPackageName(c.FilePath)}}

\* symbol.go 226-236: the chunks of the same directory
samePackage(st, chunk) ==
  IF extractPackageName(chunk.FilePath) # <<>>
  THEN {other.ID : other \in
          {c \in AllChunks(st) :
             extractPackageName(c.FilePath) = extractPackageName(chunk.FilePath)}}
  ELSE {}

\* symbol.go 287-293
max(a, b) == IF a > b THEN a ELSE b

\* the sum where the code takes the maximum
maxAdded(related, id, strength) ==
  (IF id \in DOMAIN related THEN related[id] ELSE 0) + strength

\* max(relatedChunks[id], strength): a key the map does not hold reads as 0
maxWith(related, id, strength) ==
  max(IF id \in DOMAIN related THEN related[id] ELSE 0, strength)

\* raise with the chunk itself among the candidates
raiseOwn(related, cands, chunk, strength) ==
  [id \in DOMAIN related \cup cands |->
     IF id \in cands THEN maxWith(related, id, strength) ELSE related[id]]

\* relatedChunks[id] = max(relatedChunks[id], strength) for the chunks cands
\* of a rule, the chunk itself left out
raise(related, cands, chunk, strength) ==
  [id \in DOMAIN related \cup (cands \ {chunk.ID}) |->
     IF id \in cands THEN maxWith(related, id, strength) ELSE related[id]]

\* symbol.go 229-234: relatedChunks[id] = RelationWeak where the map has no id
addWeak(related, cands, chunk) ==
  [id \in DOMAIN related \cup (cands \ {chunk.ID}) |->
     IF id \in DOMAIN related THEN related[id] ELSE RelationWeak]

\* the map relatedChunks when the rules have run, in the order of the code
relatedChunks(st, chunk) ==
  addWeak(
    raise(raise(
      raise(raise(raise(raise(EmptyMap,
        referencedElsewhere(st, chunk), chunk, RelationStrong),
        definedElsewhere(st, chunk), chunk, RelationStrong),
        typeOfMethod(st, chunk), chunk, RelationStrong),
        methodsOfType(st, chunk), chunk, RelationStrong),
      implementers(st, chunk), chunk, RelationMedium),
      importedPackages(st, chunk), chunk, RelationMedium),
    samePackage(st, chunk), chunk)

\* the orders in which the range over a map with key set S may yield the
\* keys: every order of them
RECURSIVE RangeOrders(_)
RangeOrders(S) ==
  IF S = {} THEN {<<>>}
  ELSE UNION {{<<x>> \o q : q \in RangeOrders(S \ {x})} : x \in S}

\* symbol.go 247-255: the pairs come out of a range over the map and
\* sort.Slice is not stable, so the pairs of one strength stand in any order
sortedPairs(related) ==
  {strong \o medium \o weak :
     strong \in RangeOrders({id \in DOMAIN related : related[id] = RelationStrong}),
     medium \in RangeOrders({id \in DOMAIN related : related[id] = RelationMedium}),
     weak \in RangeOrders({id \in DOMAIN related : related[id] = RelationWeak})}

\* the last maxRelations pairs where the code keeps the first
topNLast(pairs) ==
  IF Len(pairs) > maxRelations THEN SubSeq(pairs, Len(pairs) - maxRelations + 1, Len(pairs))
  ELSE pairs

\* symbol.go 258-261
topN(pairs) == IF Len(pairs) > maxRelations THEN SubSeq(pairs, 1, maxRelations) ELSE pairs

\* FindRelatedChunks: the lists of chunk IDs it may return
FindRelatedChunks(st, chunk) == {topN(pairs) : pairs \in sortedPairs(relatedChunks(st, chunk))}

(***************************************************************************)
(* The pipeline (cmd: runChunk and processDirectory).                      *)
(*   walk.entries  what filepath.Walk meets under rootDir, in its (lexical)*)
(*                 order, the root first; rel is the path below the root;  *)
(*                 walkErr whether filepath.Walk hands the walk function   *)
(*                 an error for the entry (Lstat fails on it, or it is a   *)
(*                 directory that cannot be listed); ignored is the answer *)
(*                 of the .gitignore matcher for the file, readable        *)
(*                 whether os.ReadFile succeeds on it                      *)
(*   walk.idx      the entry the walk function is called on next           *)
(*   walk.pc       "walk" in the first pass, "relate" in the second,       *)
(*                 "done" after return result, nil; "failed" after         *)
(*                 return result, err                                      *)
(*   walk.result   result.Chunks                                           *)
(*   walk.i        the index of the loop of the second pass                *)
(*   walk.handled  for every call of Chunk, the path and the chunker       *)
(*   walk.pass     1 in the first run over a tree, 2 in the second         *)
(* registry is chunkerRegistry.chunkers, symbolTable the table of the run. *)
(***************************************************************************)
DefaultMaxChunkSize == 50

FormatVectorReady == <<"v","e","c","t","o","r","-","r","e","a","d","y">>

FormatJSON == <<"j","s","o","n">>

\* runChunk 273-277
runChunkRegistry ==
  RegisterChunker(RegisterChunker(RegisterChunker(RegisterChunker(
    NewChunkerRegistry, "go"), "shell"), "dockerfile"), "generic")

\* chunker.NewGenericChunker() in the walk function: a chunker of its own
NewGenericChunker == [kind |-> "generic", inst |-> 0]

Entry(rel, isDir, content) ==
  [rel |-> rel, isDir |-> isDir, walkErr |-> FALSE, ignored |-> FALSE, readable |-> TRUE,
   content |-> content]

\* filepath.Join(dir, name), name not empty
JoinPath(dir, name) == IF dir = <<>> THEN Clean(name) ELSE Clean(dir \o <<"/">> \o name)

\* the path filepath.Walk passes for the entry: the root as it was given, and
\* filepath.Join(path, name) for what lies under it
EntryPath(rootDir, e) == IF e.rel = <<>> THEN rootDir ELSE JoinPath(rootDir, e.rel)

\* filepath.Walk after the walk function returned SkipDir on the directory at idx
AfterSkipDir(entries, idx) ==
  IF {j \in (idx + 1)..Len(entries) :
        entries[idx].rel # <<>> /\ ~HasPrefix(entries[j].rel, entries[idx].rel \o <<"/">>)} = {}
  THEN Len(entries) + 1
  ELSE SetMin({j \in (idx + 1)..Len(entries) :
                 ~HasPrefix(entries[j].rel, entries[idx].rel \o <<"/">>)})

\* processDirectory 388-392
fileChunkerFor(chunkers, path, language, framework) ==
  IF FindChunker(chunkers, path, language, framework) = Nil THEN NewGenericChunker
  ELSE FindChunker(chunkers, path, language, framework)

\* fileChunker.Chunk(path, content, symbolTable, options)
ChunkBy(fileChunker, path, content, table, options) ==
  CASE fileChunker.kind = "go" -> GoChunk(path, content, table, options)
    [] fileChunker.kind = "shell" -> ShellChunk(path, content, table, options)
    [] fileChunker.kind = "dockerfile" -> DockerChunk(path, content, table, options)
    [] fileChunker.kind = "generic" -> GenericChunk(path, content, table, options)

\* processDirectory 406-409, the table's side
RECURSIVE AddChunks(_, _)
AddChunks(st, chunks) ==
  IF Len(chunks) = 0 THEN st ELSE AddChunks(AddChunk(st, chunks[1]), Tail(chunks))

\* the walk function returns nil (or SkipDir): the walk goes on at entry next
Continue(next) ==
  /\ walk' = [walk EXCEPT !.idx = next]
  /\ UNCHANGED symbolTable

\* The chunks Chunk may return where the model's chunker gives chunks: the Go
\* chunker appends the symbols of a chunk in the order of the declaration,
\* the others take them from a range over a map.
ReturnedBy(fileChunker, chunks) ==
  IF fileChunker.kind = "go" THEN {chunks} ELSE SymbolOrders(chunks)

\* processDirectory 378-409: the file at path is read and chunked
ProcessFile(path, content, language) ==
  \E framework \in DetectFramework(path, content, language) :
    \E fileChunker \in {fileChunkerFor(registry, path, language, framework)} :
      \E out \in {ChunkBy(fileChunker, path, content, symbolTable, walk.options)} :
        \E fileChunks \in ReturnedBy(fileChunker, out.chunks) :
          /\ symbolTable' = AddChunks(out.table, fileChunks)
          /\ walk' = [walk EXCEPT !.idx = @ + 1,
                                  !.result = @ \o fileChunks,
                                  !.handled = Append(@, [path |-> path,
                                                         chunker |-> fileChunker])]

\* the walk function on the entry e at path
WalkFuncOn(e, path) ==
  IF e.walkErr
  THEN walk' = [walk EXCEPT !.pc = "failed"] /\ UNCHANGED symbolTable
  ELSE IF e.isDir
  THEN IF ShouldSkipDirectory(Base(path))
       THEN Continue(AfterSkipDir(walk.entries, walk.idx))
       ELSE Continue(walk.idx + 1)
  ELSE IF e.ignored THEN Continue(walk.idx + 1)
  ELSE IF IsBinaryFile(path) THEN Continue(walk.idx + 1)
  ELSE IF ~e.readable
  THEN walk' = [walk EXCEPT !.pc = "failed"] /\ UNCHANGED symbolTable
  ELSE ProcessFile(path, e.content, DetectLanguage(path, e.content))

\* filepath.Walk returning after the second entry
walkEndedEarly(w) == w.idx > 2

\* filepath.Walk has called the walk function on every entry it does not skip
walkEnded(w) == w.idx > Len(w.entries)

\* one call of the function processDirectory passes to filepath.Walk
WalkFunc ==
  /\ walk.pc = "walk" /\ ~walkEnded(walk)
  /\ WalkFuncOn(walk.entries[walk.idx], EntryPath(walk.rootDir, walk.entries[walk.idx]))
  /\ UNCHANGED <<run, first, ids, registry, found>>

\* processDirectory 418: the second pass is only for the vector-ready format
secondPass(format) == format = FormatVectorReady

\* filepath.Walk returns nil
WalkReturn ==
  /\ walk.pc = "walk" /\ walkEnded(walk)
  /\ walk' = [walk EXCEPT !.pc = IF secondPass(walk.format) THEN "relate" ELSE "done"]
  /\ UNCHANGED <<run, symbolTable, first, ids, registry, found>>

\* result.Chunks[i].RelatedChunks = symbolTable.FindRelatedChunks(chunk)
Relate ==
  /\ walk.pc = "relate" /\ walk.i < Len(walk.result)
  /\ \E related \in FindRelatedChunks(symbolTable, walk.result[walk.i + 1]) :
       walk' = [walk EXCEPT !.result[walk.i + 1].RelatedChunks = related, !.i = @ + 1]
  /\ UNCHANGED <<run, symbolTable, first, ids, registry, found>>

\* return result, nil after the second pass
Return ==
  /\ walk.pc = "relate" /\ walk.i >= Len(walk.result)
  /\ walk' = [walk EXCEPT !.pc = "done"]
  /\ UNCHANGED <<run, symbolTable, first, ids, registry, found>>

\* processDirectory entered on rootDir
EnterDirectory(rootDir, entries, format, options, pass) ==
  [pc |-> "walk", rootDir |-> rootDir, entries |-> entries, idx |-> 1,
   format |-> format, options |-> options, result |-> <<>>, i |-> 0,
   handled |-> <<>>, pass |-> pass]

(***************************************************************************)
(* Pipeline runs over a small tree:                                        *)
(*   Dockerfile, a/m.go, b/s.sh, n.txt, p.png, vendor/v.sh                 *)
(* with any of the Go sources in a/m.go, at most MaxIgnored files matched  *)
(* by a .gitignore, at most MaxUnreadable files that cannot be read and at *)
(* most MaxWalkErrors entries that filepath.Walk cannot stat or list.      *)
(***************************************************************************)
MaxIgnored == 1

MaxUnreadable == 1

MaxWalkErrors == 1

RootA == <<"/","r">>

RootB == <<"/","q">>

GoSources == {goSourceFunc, goSourceMethod, goSourceImport, goSourceInvalid, goSourceInterface}

Tree(goSource) ==
  <<Entry(<<>>, TRUE, <<>>),
    Entry(<<"D","o","c","k","e","r","f","i","l","e">>, FALSE, <<"F","R","O","M"," ","a">>),
    Entry(<<"a">>, TRUE, <<>>),
    Entry(<<"a","/","m",".","g","o">>, FALSE, goSource),
    Entry(<<"b">>, TRUE, <<>>),
    Entry(<<"b","/","s",".","s","h">>, FALSE, <<"f","(",")"," ","{","\n","}">>),
    Entry(<<"n",".","t","x","t">>, FALSE, <<"x">>),
    Entry(<<"p",".","p","n","g">>, FALSE, <<"x">>),
    Entry(<<"v","e","n","d","o","r">>, TRUE, <<>>),
    Entry(<<"v","e","n","d","o","r","/","v",".","s","h">>, FALSE, <<"f","(",")"," ","{","\n","}">>)>>

Files(entries) == {k \in 1..Len(entries) : ~entries[k].isDir}

Entries(entries) == 1..Len(entries)

AtMost(S, n) == {T \in SUBSET S : Cardinality(T) <= n}

\* the tree with the files of ignored matched by a .gitignore, those of
\* unreadable failing to be read and the entries of failing met with an error
\* by filepath.Walk
Flagged(entries, ignored, unreadable, failing) ==
  [k \in 1..Len(entries) |->
     [entries[k] EXCEPT !.ignored = k \in ignored, !.readable = k \notin unreadable,
                        !.walkErr = k \in failing]]

Trees ==
  {Flagged(Tree(goSource), ignored, unreadable, failing) :
     goSource \in GoSources,
     ignored \in AtMost(Files(Tree(goSourceFunc)), MaxIgnored),
     unreadable \in AtMost(Files(Tree(goSourceFunc)), MaxUnreadable),
     failing \in AtMost(Entries(Tree(goSourceFunc)), MaxWalkErrors)}

\* the registry of runChunk, one without a generic chunker, and one that
\* registers the generic chunker first
Registries ==
  {runChunkRegistry,
   RegisterChunker(RegisterChunker(RegisterChunker(
     NewChunkerRegistry, "go"), "shell"), "dockerfile"),
   RegisterChunker(RegisterChunker(NewChunkerRegistry, "generic"), "go")}

PipelineOptions == [MinChunkSize |-> DefaultMinChunkSize, MaxChunkSize |-> DefaultMaxChunkSize]

InitPipeline ==
  /\ \E entries \in Trees, format \in {FormatVectorReady, FormatJSON} :
       walk = EnterDirectory(RootA, entries, format, PipelineOptions, 1)
  /\ registry \in Registries
  /\ symbolTable = NewSymbolTable
  /\ run = Idle
  /\ first = NoFirst
  /\ ids = NoIds
  /\ found = NoFound

NextPipeline == WalkFunc \/ WalkReturn \/ Relate \/ Return

SpecPipeline == InitPipeline /\ [][NextPipeline]_vars

\* the files the walk reaches: those under no directory that it skips
Reached(w, k) ==
  /\ ~ShouldSkipDirectory(Base(w.rootDir))
  /\ \A d \in 1..Len(w.entries) :
       (/\ w.entries[d].isDir /\ w.entries[d].rel # <<>>
        /\ HasPrefix(w.entries[k].rel, w.entries[d].rel \o <<"/">>))
         => ~ShouldSkipDirectory(Base(EntryPath(w.rootDir, w.entries[d])))

\* the calls of Chunk on the file at path
CallsOn(w, path) == {h \in 1..Len(w.handled) : w.handled[h].path = path}

\* the chunker the registry's order gives the file, or the fallback
FirstHandler(path, language, framework) ==
  IF {j \in 1..Len(registry) : CanHandle(registry[j], path, language, framework)} = {}
  THEN NewGenericChunker
  ELSE registry[SetMin({j \in 1..Len(registry) :
                          CanHandle(registry[j], path, language, framework)})]

HandledAsRegistered(w, k, path) ==
  /\ Cardinality(CallsOn(w, path)) = 1
  /\ \A h \in CallsOn(w, path) :
       \E framework \in DetectFramework(path, w.entries[k].content,
                                        DetectLanguage(path, w.entries[k].content)) :
         w.handled[h].chunker =
           FirstHandler(path, DetectLanguage(path, w.entries[k].content), framework)

EveryFileChunked(w) ==
  \A k \in Files(w.entries) :
    (/\ Reached(w, k) /\ ~w.entries[k].ignored /\ w.entries[k].readable
     /\ ~IsBinaryFile(EntryPath(w.rootDir, w.entries[k])))
      => HandledAsRegistered(w, k, EntryPath(w.rootDir, w.entries[k]))

\* C9: once processDirectory has returned from the walk, every file that is
\* not ignored, not binary and readable has been chunked by exactly one
\* chunker: the first registered chunker that can handle it, or the generic
\* fallback chunker when none can.
ChunkedOnce == walk.pc \in {"relate", "done", "failed"} => EveryFileChunked(walk)

\* the same in the runs in which no read failed
ChunkedOnceWhenAllRead == walk.pc \in {"relate", "done"} => EveryFileChunked(walk)

\* C10: every call of FindRelatedChunks (a step that advances walk.i) comes
\* when the walk has been through every entry, and from the first call on
\* the symbol table does not change.
RelateAfterWalk ==
  [][/\ walk'.i > walk.i => walk.idx > Len(walk.entries)
     /\ (walk.i > 0 \/ walk'.i > walk.i) => symbolTable' = symbolTable]_vars

RelateAfterWalkWitness ==
  /\ walk.pc = "done" /\ walk.i >= 2 /\ walk.i = Len(walk.result)
  /\ DOMAIN symbolTable.Definitions # {} /\ DOMAIN symbolTable.References # {}
  /\ \E k \in 1..Len(walk.result) : walk.result[k].RelatedChunks # <<>>

(***************************************************************************)
(* Two runs over the same tree placed under two roots.                     *)
(***************************************************************************)
RunAgain ==
  /\ walk.pc = "done" /\ walk.pass = 1
  /\ first' = walk.result
  /\ walk' = EnterDirectory(RootB, walk.entries, walk.format, walk.options, 2)
  /\ symbolTable' = NewSymbolTable
  /\ UNCHANGED <<run, ids, registry, found>>

NextRoots == NextPipeline \/ RunAgain

SpecRoots == InitPipeline /\ [][NextRoots]_vars

ChunkIDs(chunks) == [k \in 1..Len(chunks) |-> chunks[k].ID]

\* C6: the runs over the two roots, which hold the same relative paths with
\* the same contents, give the same chunk IDs.
SameIDsUnderBothRoots ==
  (walk.pass = 2 /\ walk.pc = "done") => ChunkIDs(walk.result) = ChunkIDs(first)

(***************************************************************************)
(* The second pass and the result of a run.                                *)
(***************************************************************************)
\* the chunks of result.Chunks whose RelatedChunks the second pass has
\* assigned: the loop assigns result.Chunks[i] at index i and goes on
RelatedWritten(w) == 1..w.i

\* C11: when a run has completed without error, whatever the format, the
\* relationship pass has written the related chunks of every chunk of the
\* result, each exactly once.
RelatedWrittenOnce ==
  walk.pc = "done" => RelatedWritten(walk) = 1..Len(walk.result)

\* the same in the runs whose format is vector-ready
RelatedWrittenWhenVectorReady ==
  (walk.pc = "done" /\ walk.format = FormatVectorReady)
    => RelatedWritten(walk) = 1..Len(walk.result)

\* the chunks of result.Chunks that come from the file at path
ChunksOf(w, path) == {k \in 1..Len(w.result) : w.result[k].FilePath = path}

\* the result holds chunks of every file the walk reaches that is readable,
\* not ignored and not binary
ResultHoldsReadable(w) ==
  \A k \in Files(w.entries) :
    (/\ Reached(w, k) /\ ~w.entries[k].ignored /\ w.entries[k].readable
     /\ ~IsBinaryFile(EntryPath(w.rootDir, w.entries[k])))
      => ChunksOf(w, EntryPath(w.rootDir, w.entries[k])) # {}

\* C12: a file that cannot be read is skipped: the run does not end in an
\* error, and when it has completed its result holds the chunks of every
\* other readable file that is not ignored.
ReadFailureSkipped ==
  /\ walk.pc # "failed"
  /\ walk.pc \in {"relate", "done"} => ResultHoldsReadable(walk)

\* the result part alone: it holds in the runs that complete
ResultCompleteWhenAllRead ==
  walk.pc \in {"relate", "done"} => ResultHoldsReadable(walk)

(***************************************************************************)
(* The line-window loops, one window per step, for any MaxChunkSize:       *)
(* GenericChunker.Chunk and GoChunker.Chunk with its fallback.             *)
(*   run.pc   "parse" before parser.ParseFile, "loop" in the window loop,  *)
(*            "done" once Chunk has returned, "panic" after a run-time     *)
(*            panic                                                        *)
(***************************************************************************)
GoPath == <<"m",".","g","o">>

\* lines of contents that do not parse as Go: no package clause
FallbackVocabulary == { <<"f","u","n","c"," ","f","(",")"," ","{">>, <<"}">>, <<>> }

WindowSizes == {-1, 0} \cup 1..MaxM

WindowOptions == [MinChunkSize : {DefaultMinChunkSize}, MaxChunkSize : WindowSizes]

WindowInputs ==
  ({"generic"} \X {GenericPath} \X {Join(l, NL) : l \in LineSeqs(GenericVocabulary, MaxLines)})
  \cup ({"go"} \X {GoPath} \X {Join(l, NL) : l \in LineSeqs(FallbackVocabulary, MaxLines)})
  \cup ({"go"} \X {GoPath} \X GoSamples)

\* the state on entry to Chunk: GoChunker.Chunk starts by parsing
EnterWindow(chunker, filePath, content, options) ==
  [Enter(chunker, filePath, content, options, 1)
     EXCEPT !.pc = IF chunker = "go" THEN "parse" ELSE "loop"]

InitWindow ==
  /\ \E in \in WindowInputs, options \in WindowOptions :
       run = EnterWindow(in[1], in[2], in[3], options)
  /\ symbolTable = NewSymbolTable
  /\ first = NoFirst
  /\ ids = NoIds
  /\ registry = <<>>
  /\ found = NoFound
  /\ walk = NoWalk

\* the step of Chunk to the chunks and table of s, at index i and position pc
AdvanceWindow(s, i, pc) ==
  /\ run' = [run EXCEPT !.loc.chunks = s.chunks, !.i = i, !.pc = pc]
  /\ symbolTable' = s.table
  /\ UNCHANGED <<first, ids, registry, found, walk>>

\* part_004 58-107: the file parsed and Chunk returns its chunks
GoParsed ==
  /\ run.pc = "parse" /\ ~ParseFile(run.content).err
  /\ AdvanceWindow(chunkFile(ParseFile(run.content).file, run.filePath, run.content,
                             symbolTable),
                   run.i, "done")

\* part_004 60-63: the file did not parse and Chunk enters fallbackChunking
GoFallback ==
  /\ run.pc = "parse" /\ ParseFile(run.content).err
  /\ AdvanceWindow([chunks |-> <<>>, table |-> symbolTable], 0, "loop")

\* one iteration of the loop of fallbackChunking
FallbackWindow ==
  /\ run.pc = "loop" /\ run.chunker = "go" /\ run.i < Len(run.lines)
  /\ SliceInRange(run.lines, run.i, windowEnd(run.lines, run.i, run.options))
  /\ Len(run.loc.chunks) < MaxWindows
  /\ AdvanceWindow(fallbackIter([chunks |-> run.loc.chunks, table |-> symbolTable],
                                run.filePath, run.lines, run.i,
                                windowEnd(run.lines, run.i, run.options)),
                   run.i + run.options.MaxChunkSize, "loop")

\* return chunks, nil
FallbackReturn ==
  /\ run.pc = "loop" /\ run.chunker = "go" /\ run.i >= Len(run.lines)
  /\ AdvanceWindow([chunks |-> run.loc.chunks, table |-> symbolTable], run.i, "done")

\* lines[i:end] with end < i: slice bounds out of range
SlicePanic ==
  /\ run.pc = "loop" /\ run.chunker \in {"generic", "go"} /\ run.i < Len(run.lines)
  /\ ~SliceInRange(run.lines, run.i, windowEnd(run.lines, run.i, run.options))
  /\ run' = [run EXCEPT !.pc = "panic"]
  /\ UNCHANGED <<symbolTable, first, ids, registry, found, walk>>

NextWindow ==
  \/ GenericWindow \/ GenericReturn
  \/ GoParsed \/ GoFallback \/ FallbackWindow \/ FallbackReturn
  \/ SlicePanic

SpecWindow == InitWindow /\ [][NextWindow]_vars

\* the chunk is a window of at most m of the lines, without symbols
IsWindow(chunk, lines, m) ==
  /\ chunk.EndLine - chunk.StartLine + 1 <= m
  /\ chunk.Content = Join(SubSeq(lines, chunk.StartLine, chunk.EndLine), NL)
  /\ chunk.Symbols = <<>>

\* C13: on a content that does not parse as Go, with MaxChunkSize >= 1,
\* GoChunker.Chunk does not fail; the chunks it returns are line windows of
\* at most MaxChunkSize lines that cover every line exactly once and have
\* no symbols, and the symbol table gets no definition and no reference.
GoFallbackWindows ==
  (run.pc # "idle" /\ run.chunker = "go" /\ ParseFile(run.content).err
     /\ run.options.MaxChunkSize >= 1) =>
    /\ run.pc # "panic"
    /\ symbolTable.Definitions = EmptyMap /\ symbolTable.References = EmptyMap
    /\ \A k \in 1..Len(run.loc.chunks) :
         IsWindow(run.loc.chunks[k], run.lines, run.options.MaxChunkSize)
    /\ run.pc = "done" => Partition(run.loc.chunks, Len(run.lines))

\* three lines that do not parse, returned as a window of two and one of one
GoFallbackWindowsWitness ==
  /\ Returned("go") /\ ParseFile(run.content).err
  /\ run.options.MaxChunkSize = 2 /\ Len(run.lines) = 3
  /\ Len(run.loc.chunks) = 2 /\ run.loc.chunks[2].StartLine = 3

\* C14: the line-window chunkers always succeed: for every content and
\* every integer MaxChunkSize, neither the generic chunker nor the Go
\* fallback ends in a crash.
LineWindowsSucceed == run.chunker \in {"generic", "go"} => run.pc # "panic"

\* the same for MaxChunkSize >= 1
LineWindowsSucceedWhenPositive ==
  (run.chunker \in {"generic", "go"} /\ run.options.MaxChunkSize >= 1) => run.pc # "panic"

\* with MaxChunkSize >= 1 the loop index moves on with every window, so no
\* run emits more windows than the content has lines
WindowsBoundedWhenPositive ==
  (run.chunker \in {"generic", "go"} /\ run.pc = "loop" /\ run.options.MaxChunkSize >= 1)
    => Len(run.loc.chunks) <= Len(run.lines)

\* with MaxChunkSize = 0 the loop index stays at 0 and the loop goes on
\* emitting empty windows
EndlessWindows ==
  /\ run.pc = "loop" /\ run.options.MaxChunkSize = 0 /\ run.i = 0
  /\ Len(run.loc.chunks) > Len(run.lines)

(***************************************************************************)
(* FindRelatedChunks on completed symbol tables.  A table holds the chunk  *)
(* of a type T in directory /r/p, which imports x/q, and around it         *)
(*   ref      chunks of /r/p that hold a reference to T                    *)
(*   same     chunks of /r/p                                               *)
(*   imp      chunks of /r/q                                               *)
(*   refimp   chunks of /r/q that hold a reference to T                    *)
(*   method   chunks of /r/z that define a method T.m                      *)
(*   impl     chunks of /r/z that define a method U.m named in T's text    *)
(*   far      chunks of /r/z                                               *)
(* each with a name of its own.  found holds the call:                     *)
(*   found.chunk    the chunk FindRelatedChunks is called on               *)
(*   found.related  its map relatedChunks before the sort                  *)
(*   found.result   the list of IDs it returned, found.again the list of   *)
(*                  a second call                                          *)
(***************************************************************************)
Kinds == <<"ref", "same", "imp", "refimp", "method", "impl", "far">>

\* the name of the j-th chunk
NameOf(j) == <<LowerLetters[j]>>

KindDir(kind) ==
  CASE kind \in {"ref", "same"} -> <<"/","r","/","p">>
    [] kind \in {"imp", "refimp"} -> <<"/","r","/","q">>
    [] OTHER -> <<"/","r","/","z">>

KindSymbol(kind, j) ==
  CASE kind = "method" -> <<"T",".">> \o NameOf(j)
    [] kind = "impl" -> <<"U",".">> \o NameOf(j)
    [] OTHER -> NameOf(j)

\* the chunk of kind that is the j-th of the table
KindChunk(kind, j) ==
  GoChunkOf(KindDir(kind) \o <<"/">> \o NameOf(j) \o <<".","g","o">>, <<"f","u","n","c"," ">> \o KindSymbol(kind, j),
            Position(0, 1), Position(0, 1), <<KindSymbol(kind, j)>>, <<>>)

\* the chunk of the type T; its text names the methods impl of the table
TypeChunk(methods) ==
  GoChunkOf(<<"/","r","/","p","/","t",".","g","o">>, <<"t","y","p","e"," ","T"," ">> \o methods, Position(0, 1), Position(0, 1),
            <<<<"T">>>>, <<<<"x","/","q">>>>)

\* what a chunker leaves in the table for the chunk, and processDirectory's AddChunk
WithChunk(st, chunk, type, refersToT) ==
  AddChunk(
    IF refersToT
    THEN AddReference(AddDefinitions(st, chunk.Symbols, chunk, type), <<"T">>,
                      SymbolReference(<<"T">>, chunk.ID, chunk.FilePath, chunk.StartLine))
    ELSE AddDefinitions(st, chunk.Symbols, chunk, type),
    chunk)

\* the kinds of the chunks of a scenario, one after the other
RECURSIVE KindsOf(_, _)
KindsOf(counts, k) ==
  IF k > Len(Kinds) THEN <<>>
  ELSE [j \in 1..counts[k] |-> Kinds[k]] \o KindsOf(counts, k + 1)

\* the names the text of T holds: those of the impl chunks
RECURSIVE MethodNames(_, _)
MethodNames(kinds, j) ==
  IF j > Len(kinds) THEN <<>>
  ELSE (IF kinds[j] = "impl" THEN NameOf(j) \o <<" ">> ELSE <<>>) \o MethodNames(kinds, j + 1)

RECURSIVE WithKinds(_, _, _)
WithKinds(st, kinds, j) ==
  IF j > Len(kinds) THEN st
  ELSE WithKinds(WithChunk(st, KindChunk(kinds[j], j), "function",
                           kinds[j] \in {"ref", "refimp"}),
                 kinds, j + 1)

\* the completed table of the chunks kinds around T, T declared as typeKind
TableOf(kinds, typeKind) ==
  WithKinds(WithChunk(NewSymbolTable, TypeChunk(MethodNames(kinds, 1)), typeKind, FALSE),
            kinds, 1)

\* the numbers of chunks of each kind: small tables of every mix, and
\* tables with more than maxRelations candidates
SmallCounts ==
  {<<ref, same, imp, refimp, method, impl, far>> :
     ref \in 0..2, same \in 0..2, imp \in 0..2, refimp \in 0..1,
     method \in 0..1, impl \in 0..1, far \in 0..1}

LargeCounts == {<<4, 3, 4, 0, 0, 0, 0>>}

\* the chunks FindRelatedChunks is called on: every chunk of a small table,
\* the chunk of T in a table with more than maxRelations candidates
CalledOn(st, counts) ==
  IF counts \in LargeCounts THEN {TypeChunk(MethodNames(KindsOf(counts, 1), 1)).ID}
  ELSE DOMAIN st.Chunks

InitRelated ==
  /\ \E counts \in SmallCounts \cup LargeCounts, typeKind \in {"type", "interface"} :
       /\ symbolTable = TableOf(KindsOf(counts, 1), typeKind)
       /\ \E id \in CalledOn(symbolTable, counts) :
            found = [pc |-> "call", chunk |-> symbolTable.Chunks[id]]
  /\ run = Idle
  /\ first = NoFirst
  /\ ids = NoIds
  /\ registry = <<>>
  /\ walk = NoWalk

\* symbolTable.FindRelatedChunks(chunk)
FindRelated ==
  /\ found.pc = "call"
  /\ \E related \in {relatedChunks(symbolTable, found.chunk)} :
       \E pairs \in sortedPairs(related) :
         found' = [pc |-> "found", chunk |-> found.chunk, related |-> related,
                   result |-> topN(pairs)]
  /\ UNCHANGED <<run, symbolTable, first, ids, registry, walk>>

NextRelated == FindRelated

SpecRelated == InitRelated /\ [][NextRelated]_vars

\* a second call of FindRelatedChunks on the same table and chunk
FindRelatedAgain ==
  /\ found.pc = "found"
  /\ \E pairs \in sortedPairs(relatedChunks(symbolTable, found.chunk)) :
       found' = [pc |-> "again", chunk |-> found.chunk, related |-> found.related,
                 result |-> found.result, again |-> topN(pairs)]
  /\ UNCHANGED <<run, symbolTable, first, ids, registry, walk>>

\* the tables the two calls are followed on
TwiceCounts ==
  {<<ref, same, imp, 0, 0, 0, 0>> : ref \in 0..2, same \in 0..2, imp \in 0..2}

InitRelatedTwice ==
  /\ \E counts \in TwiceCounts, typeKind \in {"type", "interface"} :
       symbolTable = TableOf(KindsOf(counts, 1), typeKind)
  /\ \E id \in DOMAIN symbolTable.Chunks :
       found = [pc |-> "call", chunk |-> symbolTable.Chunks[id]]
  /\ run = Idle
  /\ first = NoFirst
  /\ ids = NoIds
  /\ registry = <<>>
  /\ walk = NoWalk

NextRelatedTwice == FindRelated \/ FindRelatedAgain

SpecRelatedTwice == InitRelatedTwice /\ [][NextRelatedTwice]_vars

(***************************************************************************)
(* The list FindRelatedChunks returns.                                     *)
(***************************************************************************)
FoundRelated == found.pc \in {"found", "again"}

\* the candidates the returned list leaves out
LeftOut == DOMAIN found.related \ SeqToSet(found.result)

\* C15: FindRelatedChunks returns at most 10 IDs, none twice, in the order
\* of non-increasing strength, and no candidate it leaves out is stronger
\* than one it returns.
TopStrongest ==
  FoundRelated =>
    /\ Len(found.result) <= 10
    /\ \A a, b \in 1..Len(found.result) : a # b => found.result[a] # found.result[b]
    /\ \A k \in 1..Len(found.result) : found.result[k] \in DOMAIN found.related
    /\ \A k \in 1..(Len(found.result) - 1) :
         found.related[found.result[k]] >= found.related[found.result[k + 1]]
    /\ \A id \in LeftOut : \A k \in 1..Len(found.result) :
         found.related[id] <= found.related[found.result[k]]

\* eleven candidates of three strengths, of which a weak one is cut
TopStrongestWitness ==
  /\ FoundRelated /\ Cardinality(DOMAIN found.related) = 11
  /\ Len(found.result) = 10
  /\ found.related[found.result[1]] = RelationStrong
  /\ found.related[found.result[10]] = RelationWeak
  /\ \A id \in LeftOut : found.related[id] = RelationWeak

\* the chunks for which a strong, a medium and the weak rule fire
StrongCandidates(st, chunk) ==
  referencedElsewhere(st, chunk) \cup definedElsewhere(st, chunk)
    \cup typeOfMethod(st, chunk) \cup methodsOfType(st, chunk)

MediumCandidates(st, chunk) == implementers(st, chunk) \cup importedPackages(st, chunk)

WeakCandidates(st, chunk) == samePackage(st, chunk)

\* the rules that fire for the chunk id as a candidate of chunk
StrongFires(st, chunk, id) == id \in StrongCandidates(st, chunk)

MediumFires(st, chunk, id) == id \in MediumCandidates(st, chunk)

WeakFires(st, chunk, id) == id \in WeakCandidates(st, chunk)

\* the strengths of the rules that fire
FiringStrengths(st, chunk, id) ==
  (IF StrongFires(st, chunk, id) THEN {10} ELSE {})
    \cup (IF MediumFires(st, chunk, id) THEN {5} ELSE {})
    \cup (IF WeakFires(st, chunk, id) THEN {1} ELSE {})

\* every chunk but own for which a rule fires, with the greatest strength
\* among the rules that fire for it
GreatestFiring(strong, medium, weak, own) ==
  [id \in (strong \cup medium \cup weak) \ {own} |->
     IF id \in strong THEN 10 ELSE IF id \in medium THEN 5 ELSE 1]

\* C16: the candidates are the other chunks for which a rule fires, and the
\* strength of each is the greatest strength among the rules that fire for
\* it: strengths are not added and the weak rule does not lower a strength.
StrengthIsMax ==
  FoundRelated =>
    found.related = GreatestFiring(StrongCandidates(symbolTable, found.chunk),
                                   MediumCandidates(symbolTable, found.chunk),
                                   WeakCandidates(symbolTable, found.chunk), found.chunk.ID)

\* T has a candidate for which the strong, the medium and the weak rule
\* fire apart from each other two by two
StrengthIsMaxWitness ==
  /\ FoundRelated /\ found.chunk.Symbols = <<<<"T">>>>
  /\ \E id \in DOMAIN found.related :
       FiringStrengths(symbolTable, found.chunk, id) = {10, 1}
  /\ \E id \in DOMAIN found.related :
       FiringStrengths(symbolTable, found.chunk, id) = {10, 5}
  /\ \E id \in DOMAIN found.related :
       FiringStrengths(symbolTable, found.chunk, id) = {1}

\* the chunk with this ID owns a definition of the symbol
Defines(st, id, symbol) == id \in DefinitionChunks(st, symbol)

\* the chunk with this ID holds a reference to the symbol
Refers(st, id, symbol) == id \in ReferenceChunks(st, symbol)

\* one of the two chunks defines a symbol the other refers to
DefineAndRefer(st, a, b) ==
  \E symbol \in DOMAIN st.Definitions \cap DOMAIN st.References :
    \/ Defines(st, a, symbol) /\ Refers(st, b, symbol)
    \/ Defines(st, b, symbol) /\ Refers(st, a, symbol)

(***************************************************************************)
(* FindRelatedChunks on tables with more than maxRelations strong          *)
(* candidates.  The lists it may return there are too many to follow one   *)
(* by one (eleven tied candidates stand in 11! orders), so these runs keep *)
(* of the returned list the set of its IDs, found.returned.                *)
(***************************************************************************)
\* the parts of S that a list with room for room more IDs may hold: all of S
\* when it fits, else any room of its members, since the pairs of one
\* strength stand in any order
KeptOf(S, room) ==
  IF Cardinality(S) <= room THEN {S} ELSE {K \in SUBSET S : Cardinality(K) = room}

\* symbol.go 247-269: the sets of IDs of the lists topN(pairs), pairs in
\* sortedPairs(related)
ReturnedSets(related) ==
  UNION {UNION {{strong \cup medium \cup weak :
                   weak \in KeptOf({id \in DOMAIN related : related[id] = RelationWeak},
                                 maxRelations - Cardinality(strong) - Cardinality(medium))} :
                  medium \in KeptOf({id \in DOMAIN related : related[id] = RelationMedium},
                                  maxRelations - Cardinality(strong))} :
           strong \in KeptOf({id \in DOMAIN related : related[id] = RelationStrong}, maxRelations)}

\* ReturnedSets is the set of the ID sets of the lists of FindRelatedChunks
ReturnedSetsOfLists ==
  found.pc = "call" =>
    ReturnedSets(relatedChunks(symbolTable, found.chunk))
      = {SeqToSet(list) : list \in FindRelatedChunks(symbolTable, found.chunk)}

\* symbolTable.FindRelatedChunks(chunk), the IDs of the list it returns
FindRelatedIDs ==
  /\ found.pc = "call"
  /\ \E related \in {relatedChunks(symbolTable, found.chunk)} :
       \E returned \in ReturnedSets(related) :
         found' = [pc |-> "found", chunk |-> found.chunk, related |-> related,
                   returned |-> returned]
  /\ UNCHANGED <<run, symbolTable, first, ids, registry, walk>>

\* tables in which ten or eleven chunks hold a reference to T
CutCounts ==
  {<<ref, same, imp, 0, 0, 0, 0>> : ref \in {maxRelations, maxRelations + 1}, same \in 0..1, imp \in 0..1}

InitRelatedCut ==
  /\ \E counts \in CutCounts, typeKind \in {"type", "interface"} :
       symbolTable = TableOf(KindsOf(counts, 1), typeKind)
  /\ \E id \in DOMAIN symbolTable.Chunks :
       found = [pc |-> "call", chunk |-> symbolTable.Chunks[id]]
  /\ run = Idle
  /\ first = NoFirst
  /\ ids = NoIds
  /\ registry = <<>>
  /\ walk = NoWalk

NextRelatedCut == FindRelatedIDs

SpecRelatedCut == InitRelatedCut /\ [][NextRelatedCut]_vars

\* C17: when a chunk defines a symbol and another chunk holds a reference
\* to it, each of the two is in the list FindRelatedChunks returns for the
\* other.
RelationDuality ==
  found.pc = "found" =>
    \A id \in DOMAIN symbolTable.Chunks \ {found.chunk.ID} :
      DefineAndRefer(symbolTable, found.chunk.ID, id) => id \in found.returned

\* the same while the list is not cut: with at most maxRelations candidates
RelationDualityWithinMax ==
  (found.pc = "found" /\ Cardinality(DOMAIN found.related) <= maxRelations) =>
    \A id \in DOMAIN symbolTable.Chunks \ {found.chunk.ID} :
      DefineAndRefer(symbolTable, found.chunk.ID, id) => id \in found.returned

\* the same for the candidates before the truncation: each is a strong
\* candidate of the other
RelationDualityOfCandidates ==
  FoundRelated =>
    \A id \in DOMAIN symbolTable.Chunks \ {found.chunk.ID} :
      DefineAndRefer(symbolTable, found.chunk.ID, id)
        => id \in DOMAIN found.related /\ found.related[id] = RelationStrong

\* C18: two calls of FindRelatedChunks on the same table and the same chunk
\* return the same IDs in the same order.
SameResultTwice == found.pc = "again" => found.again = found.result

\* the two calls return the same IDs, whatever their order, as long as
\* nothing is cut
SameSetTwice ==
  (found.pc = "again" /\ Cardinality(DOMAIN found.related) <= maxRelations)
    => SeqToSet(found.again) = SeqToSet(found.result)

\* the names T of the symbols T.m of the chunk
TypesOfMethods(chunk) ==
  {Split(chunk.Symbols[k], ".")[1] :
     k \in {j \in 1..Len(chunk.Symbols) : Len(Split(chunk.Symbols[j], ".")) = 2}}

\* chunk m has a method of a type that the chunk with ID d defines
MethodOf(st, m, d) == \E t \in TypesOfMethods(m) : Defines(st, d, t)

\* C19: a chunk with a symbol T.m and another chunk that owns a definition
\* of T are strong candidates of each other.
MethodTypePairing ==
  FoundRelated =>
    \A id \in DOMAIN symbolTable.Chunks \ {found.chunk.ID} :
      (\/ MethodOf(symbolTable, found.chunk, id)
       \/ MethodOf(symbolTable, symbolTable.Chunks[id], found.chunk.ID))
        => id \in DOMAIN found.related /\ found.related[id] = RelationStrong

\* the call on the chunk of a method T.m, with the chunk of T a candidate
MethodTypePairingWitness ==
  /\ FoundRelated /\ TypesOfMethods(found.chunk) = {<<"T">>}
  /\ \E id \in DOMAIN found.related :
       /\ Defines(symbolTable, id, <<"T">>)
       /\ found.related[id] = RelationStrong
       /\ id \in SeqToSet(found.result)

(***************************************************************************)
(* The end-to-end scenario: one directory with main.go, whose only         *)
(* function is main, and script.sh with the functions say_hello and        *)
(* goodbye.                                                                *)
(***************************************************************************)
shellScript == <<"s","a","y","_","h","e","l","l","o","(",")"," ","{","\n"," "," ","e","c","h","o"," ","h","e","l","l","o","\n","}","\n","g","o","o","d","b","y","e","(",")"," ","{","\n"," "," ","e","c","h","o"," ","b","y","e","\n","}">>

EndToEndTree ==
  <<Entry(<<>>, TRUE, <<>>),
    Entry(<<"m","a","i","n",".","g","o">>, FALSE, goSourceMain),
    Entry(<<"s","c","r","i","p","t",".","s","h">>, FALSE, shellScript)>>

EndToEndTrees ==
  {Flagged(EndToEndTree, ignored, unreadable, failing) :
     ignored \in AtMost(Files(EndToEndTree), MaxIgnored),
     unreadable \in AtMost(Files(EndToEndTree), MaxUnreadable),
     failing \in AtMost(Entries(EndToEndTree), MaxWalkErrors)}

InitEndToEnd ==
  /\ \E entries \in EndToEndTrees, format \in {FormatVectorReady, FormatJSON} :
       walk = EnterDirectory(RootA, entries, format, PipelineOptions, 1)
  /\ registry \in Registries
  /\ symbolTable = NewSymbolTable
  /\ run = Idle
  /\ first = NoFirst
  /\ ids = NoIds
  /\ found = NoFound

SpecEndToEnd == InitEndToEnd /\ [][NextPipeline]_vars

\* the run of the scenario: both files are read, with runChunk's registry
\* and the vector-ready format, and processDirectory has returned
ScenarioDone ==
  /\ walk.pc = "done" /\ walk.format = FormatVectorReady
  /\ registry = runChunkRegistry
  /\ walk.entries = EndToEndTree

\* the chunks of the result that are the function main of main.go
MainChunks(w) ==
  {k \in 1..Len(w.result) :
     /\ w.result[k].FilePath = EntryPath(w.rootDir, w.entries[2])
     /\ w.result[k].Symbols = <<<<"m","a","i","n">>>>
     /\ HasPrefix(w.result[k].Content, <<"f","u","n","c"," ","m","a","i","n">>)}

\* C20: in the end-to-end scenario the related chunks of the chunk of the
\* function main are empty.
MainUnrelated ==
  ScenarioDone => \A k \in MainChunks(walk) : walk.result[k].RelatedChunks = <<>>

\* the scenario gives the chunks the spec expects: the function main and
\* the package clause for main.go, say_hello and goodbye for script.sh
ScenarioChunks ==
  ScenarioDone =>
    /\ Cardinality(MainChunks(walk)) = 1
    /\ Cardinality(ChunksOf(walk, EntryPath(walk.rootDir, walk.entries[2]))) = 2
    /\ \E k \in ChunksOf(walk, EntryPath(walk.rootDir, walk.entries[3])) :
         walk.result[k].Symbols = <<<<"s","a","y","_","h","e","l","l","o">>>>
    /\ \E k \in ChunksOf(walk, EntryPath(walk.rootDir, walk.entries[3])) :
         walk.result[k].Symbols = <<<<"g","o","o","d","b","y","e">>>>

(***************************************************************************)
(* The symbols of the chunks GoChunker.Chunk returns for a file that       *)
(* parsed.                                                                 *)
(***************************************************************************)
GoReturned == Returned("go") /\ ~ParseFile(run.content).err

\* the chunks returned for the declaration: the chunks of its bytes
ChunksOfDecl(chunks, content, decl) ==
  {k \in 1..Len(chunks) :
     /\ chunks[k].StartLine = decl.Pos.Line /\ chunks[k].EndLine = decl.End.Line
     /\ chunks[k].Content = Slice(content, decl.Pos, decl.End)}

\* a definition of the name with the type, owned by the chunk, is in the table
Registered(st, name, chunk, type) ==
  \E d \in 1..Len(MapGet(st.Definitions, name)) :
    /\ st.Definitions[name][d].Name = name
    /\ st.Definitions[name][d].ChunkID = chunk.ID
    /\ st.Definitions[name][d].Type = type

\* a function, a method whose receiver is T or *T, or a type declaration
Named(decl) ==
  \/ decl.node = "FuncDecl" /\ (decl.Recv.nil \/ decl.Recv.ident # <<>>)
  \/ decl.node = "GenDecl" /\ decl.Tok = <<"t","y","p","e">>

\* T.m for a method m of T or *T, the bare name(s) otherwise
ExpectedSymbols(decl) ==
  IF decl.node = "GenDecl" THEN decl.Names
  ELSE IF decl.Recv.nil THEN <<decl.Name>>
  ELSE <<decl.Recv.ident \o <<".">> \o decl.Name>>

ExpectedType(decl) == IF decl.node = "GenDecl" THEN "type" ELSE "function"

SymbolsAsDeclared(st, chunk, decl) ==
  /\ chunk.Symbols = ExpectedSymbols(decl)
  /\ \A n \in 1..Len(ExpectedSymbols(decl)) :
       Registered(st, ExpectedSymbols(decl)[n], chunk, ExpectedType(decl))

\* C21: the chunk of a method m with receiver T or *T has exactly the
\* symbol T.m, the chunk of a function its bare name and the chunk of a type
\* declaration the type name, and for each a definition of that name
\* ("function", or "type") owned by the chunk is registered.
GoSymbols ==
  GoReturned =>
    \A d \in 1..Len(ParseFile(run.content).file.Decls) :
      Named(ParseFile(run.content).file.Decls[d]) =>
        /\ ChunksOfDecl(run.loc.chunks, run.content, ParseFile(run.content).file.Decls[d]) # {}
        /\ \A k \in ChunksOfDecl(run.loc.chunks, run.content,
                                 ParseFile(run.content).file.Decls[d]) :
             SymbolsAsDeclared(symbolTable, run.loc.chunks[k],
                               ParseFile(run.content).file.Decls[d])

\* the method m of *T next to the type T
GoSymbolsWitness ==
  /\ GoReturned /\ run.content = goSourcePointer
  /\ \E k \in 1..Len(run.loc.chunks) :
       /\ run.loc.chunks[k].Symbols = <<<<"T",".","m">>>>
       /\ Registered(symbolTable, <<"T",".","m">>, run.loc.chunks[k], "function")
  /\ \E k \in 1..Len(run.loc.chunks) : run.loc.chunks[k].Symbols = <<<<"T">>>>

(***************************************************************************)
(* Shell scripts made of whole functions and top-level lines.  A function  *)
(* is its definition line, for the brace-on-the-next-line style the line   *)
(* "{", one body line and the closing line "}"; functions follow each      *)
(* other and are never nested.                                             *)
(***************************************************************************)
\* the definition lines and the name each defines
shellDefinitions ==
  << <<<<"f","(",")"," ","{">>, <<"f">>>>, <<<<"f","u","n","c","t","i","o","n"," ","g"," ","{">>, <<"g">>>>, <<<<"h","(",")">>, <<"h">>>>,
     <<<<"f","u","n","c","t","i","o","n"," ","a","-","b","(",")"," ","{">>, <<"a","-","b">>>> >>

\* the lines of one function with the definition line
ShellFunction(defLine) ==
  IF HasSuffix(defLine, <<"{">>) THEN <<defLine, <<" "," ","x">>, <<"}">>>>
  ELSE <<defLine, <<"{">>, <<" "," ","x">>, <<"}">>>>

\* a function or one line of top-level code
ShellItems ==
  {ShellFunction(shellDefinitions[k][1]) : k \in 1..Len(shellDefinitions)} \cup {<<<<"x">>>>}

MaxItems == 3

RECURSIVE Scripts(_)
Scripts(n) ==
  IF n = 0 THEN {<<>>} ELSE {item \o rest : item \in ShellItems, rest \in Scripts(n - 1)}

ShellOptions ==
  [MinChunkSize : {DefaultMinChunkSize}, MaxChunkSize : (1..MaxM) \cup {DefaultMaxChunkSize}]

InitShell ==
  /\ \E n \in 1..MaxItems : \E script \in Scripts(n), options \in ShellOptions :
       run = Enter("shell", ShellPath, Join(script, NL), options, 1)
  /\ symbolTable = NewSymbolTable
  /\ first = NoFirst
  /\ ids = NoIds
  /\ registry = <<>>
  /\ found = NoFound
  /\ walk = NoWalk

NextShell == ShellLine \/ ShellReturn

SpecShell == InitShell /\ [][NextShell]_vars

\* the functions of the script: each definition line up to the next "}"
FunctionsOf(lines) ==
  {[name |-> ValueOf(shellDefinitions, lines[s]), start |-> s,
    end |-> SetMin({e \in s..Len(lines) : lines[e] = <<"}">>})] :
     s \in {k \in 1..Len(lines) : HasKey(shellDefinitions, lines[k])}}

\* the function is a chunk of its own, with its name among the symbols and
\* a definition of the name owned by the chunk
FunctionChunk(chunks, st, fn) ==
  \E k \in 1..Len(chunks) :
    /\ chunks[k].StartLine = fn.start /\ chunks[k].EndLine = fn.end
    /\ \E n \in 1..Len(chunks[k].Symbols) : chunks[k].Symbols[n] = fn.name
    /\ Registered(st, fn.name, chunks[k], "function")

\* the script is two functions followed by top-level code
TwoFunctionsThenCode(lines) ==
  /\ Cardinality(FunctionsOf(lines)) = 2
  /\ \A fn \in FunctionsOf(lines) : fn.end < Len(lines)
  /\ lines[Len(lines)] = <<"x">>

\* C22: every function of a script whose functions have their definition
\* line and their closing "}" on separate lines and are not nested is
\* returned as a chunk of its own, whose symbols contain the function's name
\* and which owns a "function" definition of that name; two such functions
\* followed by top-level code give at least 3 chunks.
ShellFunctionChunks ==
  Returned("shell") =>
    /\ \A fn \in FunctionsOf(run.lines) : FunctionChunk(run.loc.chunks, symbolTable, fn)
    /\ TwoFunctionsThenCode(run.lines) => Len(run.loc.chunks) >= 3

\* the definition line is one isFunctionStart accepts and the name is one
\* \w+ matches
Recognised(lines, fn) ==
  /\ isFunctionStart(TrimSpace(lines[fn.start]))
  /\ \A c \in 1..Len(fn.name) : IsWord(fn.name[c])

\* the same for the functions the chunker recognises
RecognisedFunctionChunks ==
  Returned("shell") =>
    /\ \A fn \in FunctionsOf(run.lines) :
         Recognised(run.lines, fn) => FunctionChunk(run.loc.chunks, symbolTable, fn)
    /\ (TwoFunctionsThenCode(run.lines)
          /\ \A fn \in FunctionsOf(run.lines) : Recognised(run.lines, fn))
         => Len(run.loc.chunks) >= 3

\* two functions with the brace on the next line and a line of code, all
\* returned as one chunk
OneChunkForTwoFunctions ==
  /\ Returned("shell") /\ TwoFunctionsThenCode(run.lines)
  /\ Len(run.loc.chunks) = 1

(***************************************************************************)
(* The Dockerfile chunker on instruction lines in either letter case and   *)
(* with indentation, comments, blank lines and continuation lines.         *)
(***************************************************************************)
DockerLines ==
  { <<"F","R","O","M"," ","a"," ","A","S"," ","b">>, <<"R","U","N"," ","x">>, <<" ","r","u","n"," ","y">>, <<"#","c">>, <<>>, <<"x">> }

MaxDockerLines == 4

InitDocker ==
  /\ \E lines \in LineSeqs(DockerLines, MaxDockerLines), options \in Options :
       run = Enter("dockerfile", DockerPath, Join(lines, NL), options, 1)
  /\ symbolTable = NewSymbolTable
  /\ first = NoFirst
  /\ ids = NoIds
  /\ registry = <<>>
  /\ found = NoFound
  /\ walk = NoWalk

NextDocker == DockerLine \/ DockerReturn

SpecDocker == InitDocker /\ [][NextDocker]_vars

\* the line, trimmed, begins with a major instruction keyword and a space
InstructionLine(line) == isChunkBoundary(TrimSpace(line))

\* the lines of the chunk
ChunkLines(chunk) == Split(chunk.Content, NL)

\* the chunks whose line range holds line n
ChunksAround(chunks, n) ==
  {k \in 1..Len(chunks) : chunks[k].StartLine <= n /\ n <= chunks[k].EndLine}

\* C23: every instruction line is the first line of the chunk that contains
\* it, so no chunk of the Dockerfile chunker holds two instruction lines and
\* every FROM line starts a chunk.
DockerBoundaries ==
  Returned("dockerfile") =>
    /\ \A n \in 1..Len(run.lines) :
         InstructionLine(run.lines[n]) =>
           /\ ChunksAround(run.loc.chunks, n) # {}
           /\ \A k \in ChunksAround(run.loc.chunks, n) :
                /\ run.loc.chunks[k].StartLine = n
                /\ ChunkLines(run.loc.chunks[k])[1] = run.lines[n]
    /\ \A k \in 1..Len(run.loc.chunks) :
         Cardinality({n \in 1..Len(ChunkLines(run.loc.chunks[k])) :
                        InstructionLine(ChunkLines(run.loc.chunks[k])[n])}) <= 1

\* a RUN with a continuation line and the FROM of the next stage, with
\* room for all three lines in one chunk
DockerBoundariesWitness ==
  /\ Returned("dockerfile") /\ run.options.MaxChunkSize = 3
  /\ run.lines = <<<<"R","U","N"," ","x">>, <<"x">>, <<"F","R","O","M"," ","a"," ","A","S"," ","b">>>>
  /\ Len(run.loc.chunks) = 2 /\ run.loc.chunks[2].StartLine = 3

(***************************************************************************)
(* A run over a tree with a file of every kind: one per specialised        *)
(* chunker, a text file with an extension and a file without one.          *)
(***************************************************************************)
LanguageTree ==
  <<Entry(<<>>, TRUE, <<>>),
    Entry(<<"D","o","c","k","e","r","f","i","l","e">>, FALSE, <<"F","R","O","M"," ","a">>),
    Entry(<<"L","I","C","E","N","S","E">>, FALSE, <<"x">>),
    Entry(<<"a">>, TRUE, <<>>),
    Entry(<<"a","/","m",".","g","o">>, FALSE, goSourceFunc),
    Entry(<<"a","/","n",".","t","x","t">>, FALSE, <<"x">>),
    Entry(<<"b">>, TRUE, <<>>),
    Entry(<<"b","/","s",".","s","h">>, FALSE, <<"f","(",")"," ","{","\n","}">>)>>

InitLanguage ==
  /\ \E ignored \in AtMost(Files(LanguageTree), MaxIgnored),
        unreadable \in AtMost(Files(LanguageTree), MaxUnreadable),
        failing \in AtMost(Entries(LanguageTree), MaxWalkErrors),
        format \in {FormatVectorReady, FormatJSON} :
       walk = EnterDirectory(RootA, Flagged(LanguageTree, ignored, unreadable, failing), format,
                             PipelineOptions, 1)
  /\ registry \in Registries
  /\ symbolTable = NewSymbolTable
  /\ run = Idle
  /\ first = NoFirst
  /\ ids = NoIds
  /\ found = NoFound

SpecLanguage == InitLanguage /\ [][NextPipeline]_vars

\* C24: every chunk of the result of a run has a language that is not
\* the empty string, whatever the file and the chunker that handled it.
LanguageSet ==
  walk.pc # "idle" => \A k \in 1..Len(walk.result) : walk.result[k].Language # <<>>

\* a chunk has no language only if it is a chunk of the generic chunker for
\* a path without an extension
LanguageSetWithExtension ==
  walk.pc # "idle" =>
    \A k \in 1..Len(walk.result) :
      walk.result[k].Language = <<>> =>
        /\ Ext(walk.result[k].FilePath) \in {<<>>, <<".">>}
        /\ \E h \in 1..Len(walk.handled) :
             /\ walk.handled[h].path = walk.result[k].FilePath
             /\ walk.handled[h].chunker.kind = "generic"

\* the run of chunk's own registry has returned the chunk of LICENSE
LicenseChunked ==
  /\ walk.pc = "done" /\ registry = runChunkRegistry
  /\ \E k \in 1..Len(walk.result) :
       walk.result[k].FilePath = EntryPath(walk.rootDir, LanguageTree[3])

(***************************************************************************)
(* Calling a chunker twice on the same path, content and MaxChunkSize,     *)
(* each time with a fresh symbol table, with two different values of       *)
(* MinChunkSize.  first keeps what the first call returned and the         *)
(* definitions and references it added.                                    *)
(***************************************************************************)
MinSizes == {1, DefaultMinChunkSize}

MinInputs ==
  ({"shell"} \X {ShellPath} \X {Join(l, NL) : l \in LineSeqs(ShellVocabulary, MaxLines - 1)})
  \cup ({"dockerfile"} \X {DockerPath}
          \X {Join(l, NL) : l \in LineSeqs(DockerVocabulary, MaxLines - 1)})
  \cup ({"generic"} \X {GenericPath}
          \X {Join(l, NL) : l \in LineSeqs(GenericVocabulary, MaxLines - 1)})
  \cup ({"go"} \X {GoPath} \X {Join(l, NL) : l \in LineSeqs(FallbackVocabulary, MaxLines - 1)})
  \cup ({"go"} \X {GoPath} \X GoSamples)

InitMin ==
  /\ \E in \in MinInputs, options \in [MinChunkSize : MinSizes, MaxChunkSize : 1..MaxM] :
       run = EnterWindow(in[1], in[2], in[3], options)
  /\ symbolTable = NewSymbolTable
  /\ first = NoFirst
  /\ ids = NoIds
  /\ registry = <<>>
  /\ found = NoFound
  /\ walk = NoWalk

\* the second call: the same input with another MinChunkSize
CallWithOtherMin ==
  /\ run.pc = "done" /\ run.call = 1
  /\ first' = [chunks |-> run.loc.chunks, table |-> symbolTable]
  /\ \E min \in MinSizes \ {run.options.MinChunkSize} :
       run' = [EnterWindow(run.chunker, run.filePath, run.content,
                           [run.options EXCEPT !.MinChunkSize = min])
                 EXCEPT !.call = 2]
  /\ symbolTable' = NewSymbolTable
  /\ UNCHANGED <<ids, registry, found, walk>>

NextMin ==
  \/ ShellLine \/ ShellReturn
  \/ DockerLine \/ DockerReturn
  \/ GenericWindow \/ GenericReturn
  \/ GoParsed \/ GoFallback \/ FallbackWindow \/ FallbackReturn
  \/ CallWithOtherMin

SpecMin == InitMin /\ [][NextMin]_vars

BothReturned == run.pc = "done" /\ run.call = 2

\* C25: two calls of Chunk that differ only in MinChunkSize return the
\* same sequence of chunks and add the same definitions and references to
\* the symbol table.
MinChunkSizeIgnored ==
  BothReturned => (run.loc.chunks = first.chunks /\ symbolTable = first.table)

\* the chunk with its symbols as a set
Unordered(chunk) ==
  [id |-> chunk.ID, path |-> chunk.FilePath, lines |-> <<chunk.StartLine, chunk.EndLine>>,
   content |-> chunk.Content, language |-> chunk.Language,
   symbols |-> SeqToSet(chunk.Symbols), imports |-> chunk.Imports]

\* the two calls agree on everything but the order of the symbols of a chunk
MinChunkSizeIgnoredUpToSymbolOrder ==
  BothReturned =>
    /\ Len(run.loc.chunks) = Len(first.chunks)
    /\ \A k \in 1..Len(first.chunks) :
         Unordered(run.loc.chunks[k]) = Unordered(first.chunks[k])
    /\ symbolTable = first.table

\* two calls that returned a chunk with more than one symbol
TwoSymbolsTwice ==
  /\ BothReturned
  /\ \E k \in 1..Len(first.chunks) : Len(first.chunks[k].Symbols) >= 2

(***************************************************************************)
(* Chunking a file, changing one byte of it that is not a newline into     *)
(* another byte that is not a newline, and chunking it again.  first keeps *)
(* the chunks of the first call and the position of the changed byte.      *)
(***************************************************************************)
MaxChangedLines == 2

\* the bytes a byte is changed into
ChangedBytes == {"x", "#"}

ChangeInputs ==
  ({"shell"} \X {ShellPath} \X LineSeqs(ShellVocabulary, MaxChangedLines))
  \cup ({"dockerfile"} \X {DockerPath} \X LineSeqs(DockerVocabulary, MaxChangedLines))
  \cup ({"generic"} \X {GenericPath} \X LineSeqs(GenericVocabulary, MaxChangedLines))

InitChange ==
  /\ \E in \in ChangeInputs, options \in Options :
       run = Enter(in[1], in[2], Join(in[3], NL), options, 1)
  /\ symbolTable = NewSymbolTable
  /\ first = NoFirst
  /\ ids = NoIds
  /\ registry = <<>>
  /\ found = NoFound
  /\ walk = NoWalk

\* the second call, on the content with the byte at pos changed
CallOnChanged ==
  /\ run.pc = "done" /\ run.call = 1
  /\ \E pos \in {p \in 1..Len(run.content) : run.content[p] # "\n"} :
       \E byte \in ChangedBytes \ {run.content[pos]} :
         /\ first' = [chunks |-> run.loc.chunks, pos |-> pos]
         /\ run' = Enter(run.chunker, run.filePath, [run.content EXCEPT ![pos] = byte],
                         run.options, 2)
  /\ symbolTable' = NewSymbolTable
  /\ UNCHANGED <<ids, registry, found, walk>>

NextChange == NextChunk \/ CallOnChanged

SpecChange == InitChange /\ [][NextChange]_vars

\* the line of the byte at position pos
LineOf(content, pos) == 1 + Cardinality({k \in 1..(pos - 1) : content[k] = "\n"})

\* the chunk of the first call is a chunk of the second: same lines, same ID
Kept(chunk, chunks) ==
  \E k \in 1..Len(chunks) :
    /\ chunks[k].StartLine = chunk.StartLine /\ chunks[k].EndLine = chunk.EndLine
    /\ chunks[k].ID = chunk.ID

\* only the chunk of the first call whose span holds the changed byte has
\* changed its ID in the second
OnlyChangedChunk(before, after, line) ==
  \A k \in 1..Len(before) :
    IF before[k].StartLine <= line /\ line <= before[k].EndLine
    THEN ~Kept(before[k], after)
    ELSE Kept(before[k], after)

\* C26: changing one byte that is not a newline inside the span of a chunk
\* and chunking the file again changes the ID of that chunk only: every
\* other chunk of the file keeps its line range and its ID.
ContentSensitive ==
  BothReturned =>
    OnlyChangedChunk(first.chunks, run.loc.chunks, LineOf(run.content, first.pos))

\* the same for the generic chunker, whose windows depend on the number of
\* lines only
ContentSensitiveGeneric ==
  (BothReturned /\ run.chunker = "generic") =>
    OnlyChangedChunk(first.chunks, run.loc.chunks, LineOf(run.content, first.pos))

\* a change that takes the instruction keyword from a line leaves the
\* comment before it without a chunk of its own
BoundaryChangedAway ==
  /\ BothReturned /\ run.chunker = "dockerfile"
  /\ Len(first.chunks) = 2 /\ Len(run.loc.chunks) = 1
  /\ LineOf(run.content, first.pos) = 2

\* the chunk spans the whole content, from line 1 to the last line
WholeFile(chunk) ==
  /\ chunk.StartLine = 1 /\ chunk.EndLine = Len(run.lines)
  /\ chunk.Content = run.content

\* C27: for a Go file that parses, Chunk returns one chunk that spans the
\* whole content, and the line range of every other chunk of the file lies
\* within the range of that chunk.
GoWholeFileChunk ==
  GoReturned =>
    /\ Cardinality({k \in 1..Len(run.loc.chunks) : WholeFile(run.loc.chunks[k])}) = 1
    /\ \A w \in 1..Len(run.loc.chunks) :
         WholeFile(run.loc.chunks[w]) =>
           \A k \in 1..Len(run.loc.chunks) :
             /\ run.loc.chunks[w].StartLine <= run.loc.chunks[k].StartLine
             /\ run.loc.chunks[k].EndLine <= run.loc.chunks[w].EndLine

\* the package-level chunk is the package clause: it ends with the name of
\* the package and has that name as its only symbol
GoPackageClauseChunk ==
  GoReturned =>
    \E k \in 1..Len(run.loc.chunks) :
      /\ run.loc.chunks[k].Content =
           Slice(run.content, packageStart(ParseFile(run.content).file),
                 ParseFile(run.content).file.NameEnd)
      /\ run.loc.chunks[k].EndLine = ParseFile(run.content).file.NameEnd.Line
      /\ run.loc.chunks[k].Symbols = <<ParseFile(run.content).file.Name>>

\* a function on line 2 and a package chunk that ends on line 1
GoFunctionOutsidePackageChunk ==
  /\ GoReturned /\ run.content = goSourceFunc
  /\ Len(run.loc.chunks) = 2
  /\ run.loc.chunks[1].StartLine = 2 /\ run.loc.chunks[2].EndLine = 1

\* a blank line or a comment line
BlankOrComment(line) == TrimSpace(line) = <<>> \/ HasPrefix(TrimSpace(line), <<"#">>)

\* the chunk is nothing but blank and comment lines
OnlyBlankOrComment(chunk) ==
  \A n \in 1..Len(ChunkLines(chunk)) : BlankOrComment(ChunkLines(chunk)[n])

\* C28: blank and comment lines at the start of a pending block are folded
\* into the block that follows: no chunk of the Dockerfile chunker consists
\* of blank and comment lines only while an instruction line follows it, the
\* instruction line being in the same chunk as the lines before it.
LeadingLinesFolded ==
  Returned("dockerfile") =>
    \A k \in 1..Len(run.loc.chunks) :
      (OnlyBlankOrComment(run.loc.chunks[k]) /\ run.loc.chunks[k].EndLine < Len(run.lines))
        => ~InstructionLine(run.lines[run.loc.chunks[k].EndLine + 1])

\* a leading blank or comment line stays with the line after it when that
\* line is no instruction line and the block may hold two lines
LeadingLinesJoinContinuation ==
  (Returned("dockerfile") /\ run.options.MaxChunkSize >= 2) =>
    \A k \in 1..Len(run.loc.chunks) :
      (/\ BlankOrComment(run.lines[run.loc.chunks[k].StartLine])
       /\ run.loc.chunks[k].StartLine < Len(run.lines)
       /\ ~InstructionLine(run.lines[run.loc.chunks[k].StartLine + 1]))
        => run.loc.chunks[k].EndLine > run.loc.chunks[k].StartLine

\* a comment split off alone before the instruction it precedes, with room
\* for both lines in one chunk
CommentSplitOff ==
  /\ Returned("dockerfile") /\ run.options.MaxChunkSize = 3
  /\ run.lines = <<<<"#","c">>, <<"R","U","N"," ","x">>>>
  /\ Len(run.loc.chunks) = 2 /\ run.loc.chunks[1].EndLine = 1

\* the number of lines of the chunk
LineCount(chunk) == chunk.EndLine - chunk.StartLine + 1

\* C29: for every MaxChunkSize >= 1, no chunk of the Dockerfile chunker has
\* more than MaxChunkSize lines, also when the first line of the block is a
\* blank or comment line.
DockerChunkWithinMax ==
  Returned("dockerfile") =>
    \A k \in 1..Len(run.loc.chunks) :
      LineCount(run.loc.chunks[k]) <= run.options.MaxChunkSize

\* the same for MaxChunkSize >= 2; with MaxChunkSize = 1 a chunk has at
\* most 2 lines
DockerChunkWithinMaxFromTwo ==
  Returned("dockerfile") =>
    \A k \in 1..Len(run.loc.chunks) :
      /\ run.options.MaxChunkSize >= 2 =>
           LineCount(run.loc.chunks[k]) <= run.options.MaxChunkSize
      /\ LineCount(run.loc.chunks[k]) <= run.options.MaxChunkSize + 1

\* a chunk of two lines under MaxChunkSize = 1
TwoLinesUnderMaxOne ==
  /\ Returned("dockerfile") /\ run.options.MaxChunkSize = 1
  /\ \E k \in 1..Len(run.loc.chunks) : LineCount(run.loc.chunks[k]) = 2

\* the keyword of an instruction line
KeywordOf(line) ==
  majorInstructions[CHOOSE k \in 1..Len(majorInstructions) :
                      HasPrefix(ToUpper(TrimSpace(line)), majorInstructions[k] \o <<" ">>)]

\* the chunk has the symbol and owns an "instruction" definition of it
HasInstruction(st, chunk, symbol) ==
  /\ \E n \in 1..Len(chunk.Symbols) : chunk.Symbols[n] = symbol
  /\ Registered(st, symbol, chunk, "instruction")

\* C30: every chunk of the Dockerfile chunker has among its symbols the
\* keyword of every instruction line it contains, in whatever letter case
\* and with whatever indentation the line is written, and owns an
\* "instruction" definition of each.
DockerSymbols ==
  Returned("dockerfile") =>
    \A k \in 1..Len(run.loc.chunks) :
      \A n \in 1..Len(ChunkLines(run.loc.chunks[k])) :
        InstructionLine(ChunkLines(run.loc.chunks[k])[n]) =>
          HasInstruction(symbolTable, run.loc.chunks[k],
                         KeywordOf(ChunkLines(run.loc.chunks[k])[n]))

\* the line starts, without indentation, with a keyword of
\* instructionPattern in upper case and a space
PlainInstructionLine(line) ==
  \E k \in 1..Len(instructionKeywords) : HasPrefix(line, instructionKeywords[k] \o <<" ">>)

\* the same for instruction lines in upper case and without indentation
DockerSymbolsOfPlainLines ==
  Returned("dockerfile") =>
    \A k \in 1..Len(run.loc.chunks) :
      \A n \in 1..Len(ChunkLines(run.loc.chunks[k])) :
        PlainInstructionLine(ChunkLines(run.loc.chunks[k])[n]) =>
          HasInstruction(symbolTable, run.loc.chunks[k],
                         KeywordOf(ChunkLines(run.loc.chunks[k])[n]))

\* the chunk of an indented lower-case instruction line, without symbols
IndentedInstructionUnnamed ==
  /\ Returned("dockerfile") /\ run.lines = <<<<" ","r","u","n"," ","y">>>>
  /\ Len(run.loc.chunks) = 1 /\ run.loc.chunks[1].Symbols = <<>>

(***************************************************************************)
(* The steps of the shell chunker inside a function.                       *)
(***************************************************************************)
\* the shell chunker is inside a function and about to read a line
InsideFunction ==
  /\ run.pc = "loop" /\ run.chunker = "shell" /\ run.i < Len(run.lines)
  /\ run.loc.inFunction

\* the line the shell chunker is about to read, trimmed
NextTrimmed == TrimSpace(run.lines[run.i + 1])

\* the step emits one chunk, from the line that opened the function to the
\* line read, and leaves the function with the next block starting after it
ClosesFunction ==
  /\ Len(run'.loc.chunks) = Len(run.loc.chunks) + 1
  /\ SubSeq(run'.loc.chunks, 1, Len(run.loc.chunks)) = run.loc.chunks
  /\ run'.loc.chunks[Len(run'.loc.chunks)].StartLine = run.loc.startLine
  /\ isFunctionStart(TrimSpace(run.lines[run.loc.startLine]))
  /\ ChunkLines(run'.loc.chunks[Len(run'.loc.chunks)])[1] = run.lines[run.loc.startLine]
  /\ run'.loc.chunks[Len(run'.loc.chunks)].EndLine = run.i + 1
  /\ run'.loc.chunks[Len(run'.loc.chunks)].Content =
       Join(SubSeq(run.lines, run.loc.startLine, run.i + 1), NL)
  /\ ~run'.loc.inFunction
  /\ run'.loc.startLine = run.i + 2 /\ run'.loc.currentChunk = <<>>

\* the step emits nothing and stays in the function it is in
StaysInFunction ==
  /\ run'.loc.chunks = run.loc.chunks
  /\ run'.loc.inFunction /\ run'.loc.startLine = run.loc.startLine
  /\ run'.loc.currentChunk = Append(run.loc.currentChunk, run.lines[run.i + 1])

\* C31: inside a function, a line that trimmed is "}" or starts with "} #"
\* makes the shell chunker emit one chunk from the function-definition line
\* that opened the function to that line and return to the outside with the
\* next block starting at the following line; a function-definition line
\* read inside a function starts no chunk.
ShellFunctionClosed ==
  [][(InsideFunction /\ isFunctionEnd(NextTrimmed) => ClosesFunction)
     /\ (InsideFunction /\ ~isFunctionEnd(NextTrimmed) /\ isFunctionStart(NextTrimmed)
           => StaysInFunction)]_vars

\* a function with a second definition line inside it, returned as the one
\* chunk of lines 1 to 3
ShellFunctionClosedWitness ==
  /\ Returned("shell")
  /\ run.lines = <<<<"f","(",")"," ","{">>, <<"f","u","n","c","t","i","o","n"," ","g"," ","{">>, <<"}">>>>
  /\ Len(run.loc.chunks) = 1
  /\ run.loc.chunks[1].StartLine = 1 /\ run.loc.chunks[1].EndLine = 3

\* the chunk begins with a function-definition line
BeginsFunction(chunk) == isFunctionStart(TrimSpace(ChunkLines(chunk)[1]))

\* C32: for every MaxChunkSize >= 1 a chunk of the shell chunker that does
\* not begin with a function-definition line has at most MaxChunkSize lines:
\* outside a function the pending block never holds MaxChunkSize lines
\* after a step, and the block after a flushed one starts at the next line.
ShellBlocksWithinMax ==
  run.chunker = "shell" =>
    /\ \A k \in 1..Len(run.loc.chunks) :
         ~BeginsFunction(run.loc.chunks[k]) =>
           LineCount(run.loc.chunks[k]) <= run.options.MaxChunkSize
    /\ ~run.loc.inFunction => Len(run.loc.currentChunk) < run.options.MaxChunkSize
    /\ \A k \in 1..(Len(run.loc.chunks) - 1) :
         run.loc.chunks[k + 1].StartLine = run.loc.chunks[k].EndLine + 1

\* a block flushed at MaxChunkSize lines next to a function of more lines
ShellBlocksWithinMaxWitness ==
  /\ Returned("shell")
  /\ \E k \in 1..Len(run.loc.chunks) :
       /\ ~BeginsFunction(run.loc.chunks[k])
       /\ LineCount(run.loc.chunks[k]) = run.options.MaxChunkSize
       /\ k < Len(run.loc.chunks)
  /\ \E k \in 1..Len(run.loc.chunks) :
       /\ BeginsFunction(run.loc.chunks[k])
       /\ LineCount(run.loc.chunks[k]) > run.options.MaxChunkSize

(***************************************************************************)
(* Attribution of the references the Go chunker collects.                  *)
(***************************************************************************)
\* the references collectReferences recorded: their FilePath is the package name
CollectedReferences(st, file) ==
  {r \in UNION {SeqToSet(st.References[n]) : n \in DOMAIN st.References} :
     r.FilePath = file.Name}

\* the reference is attributed to the first chunk whose lines hold its line
AttributedToFirst(r, chunks) ==
  /\ chunksAt(chunks, r.Line) # {}
  /\ r.ChunkID = chunks[SetMin(chunksAt(chunks, r.Line))].ID

\* C33: every reference recorded by the Go chunker's reference collection is
\* attributed to the first returned chunk whose lines StartLine..EndLine hold
\* the line of the identifier, and never to a chunk whose lines do not hold it.
ReferencesInRange ==
  GoReturned =>
    \A r \in CollectedReferences(symbolTable, ParseFile(run.content).file) :
      AttributedToFirst(r, run.loc.chunks)

\* the same for the identifiers on a line that some returned chunk holds
ReferencesInRangeWhenCovered ==
  GoReturned =>
    \A r \in CollectedReferences(symbolTable, ParseFile(run.content).file) :
      chunksAt(run.loc.chunks, r.Line) # {} => AttributedToFirst(r, run.loc.chunks)

\* an identifier of a second import declaration, which no chunk holds, is
\* attributed to the chunk of the node visited before it
StaleAttribution ==
  /\ GoReturned
  /\ \E r \in CollectedReferences(symbolTable, ParseFile(run.content).file) :
       /\ chunksAt(run.loc.chunks, r.Line) = {}
       /\ \E k \in 1..Len(run.loc.chunks) : run.loc.chunks[k].ID = r.ChunkID

(***************************************************************************)
(* The brace-tracking chunkers of the command (main.go).  In funcRegex and *)
(* typeRegex the head ^func\s+\w+ is followed by .*{$ : the rest of the    *)
(* line is anything that ends in "{".  "{" is not a word character, so the *)
(* line matches when the longest match of the head leaves a last character *)
(* "{".  The same holds for .*{ in the pattern of chunkJSFile.             *)
(***************************************************************************)
\* main.go 131-170
extensionLanguages ==
  << <<<<".","g","o">>, <<"g","o">>>>, <<<<".","t","s">>, <<"t","y","p","e","s","c","r","i","p","t">>>>, <<<<".","j","s">>, <<"j","a","v","a","s","c","r","i","p","t">>>>, <<<<".","j","s","x">>, <<"j","s","x">>>>,
     <<<<".","t","s","x">>, <<"t","s","x">>>>, <<<<".","c","s","s">>, <<"c","s","s">>>>, <<<<".","s","c","s","s">>, <<"s","c","s","s">>>>, <<<<".","l","e","s","s">>, <<"l","e","s","s">>>>,
     <<<<".","h","t","m","l">>, <<"h","t","m","l">>>>, <<<<".","j","s","o","n">>, <<"j","s","o","n">>>>, <<<<".","y","a","m","l">>, <<"y","a","m","l">>>>, <<<<".","y","m","l">>, <<"y","a","m","l">>>>,
     <<<<".","t","o","m","l">>, <<"t","o","m","l">>>>, <<<<".","m","d">>, <<"m","a","r","k","d","o","w","n">>>>, <<<<".","m","a","r","k","d","o","w","n">>, <<"m","a","r","k","d","o","w","n">>>> >>

detectLanguage(filename) ==
  IF HasKey(extensionLanguages, ToLower(Ext(filename)))
  THEN ValueOf(extensionLanguages, ToLower(Ext(filename)))
  ELSE IF ToLower(Base(filename)) = <<"d","o","c","k","e","r","f","i","l","e">> \/ HasPrefix(ToLower(Base(filename)), <<"d","o","c","k","e","r","f","i","l","e",".">>)
  THEN <<"d","o","c","k","e","r","f","i","l","e">>
  ELSE <<"u","n","k","n","o","w","n">>

\* main.go 186-190: the languages processFile gives to chunkGoFile and chunkJSFile
BraceLanguages == {<<"g","o">>, <<"t","y","p","e","s","c","r","i","p","t">>, <<"j","a","v","a","s","c","r","i","p","t">>, <<"j","s","x">>, <<"t","s","x">>}

\* strings.Count(line, c) for a one-byte c
Count(line, c) == Cardinality({k \in 1..Len(line) : line[k] = c})

\* the position after the head is followed by .*{$: characters other than
\* the newline up to a brace that ends the text
ThenBraceAtEnd(line, end) ==
  /\ end > 0 /\ Len(line) >= end /\ line[Len(line)] = "{"
  /\ \A j \in end..(Len(line) - 1) : line[j] # NL

\* the position after the head is followed by .*{: characters other than the
\* newline up to a brace
ThenBrace(line, end) ==
  end > 0 /\ \E k \in end..Len(line) : line[k] = "{" /\ \A j \in end..(k - 1) : line[j] # NL

\* main.go 209, funcRegex of chunkGoFile: ^func\s+\w+.*{$
goFuncRegex(line) ==
  ThenBraceAtEnd(line, MatchAt(<<BeginText, Lit(<<"f","u","n","c">>), Rep("s", 1, FALSE), Rep("w", 1, FALSE)>>,
                               line, 1).end)

\* main.go 210, typeRegex of chunkGoFile: ^type\s+\w+.*{$
goTypeRegex(line) ==
  ThenBraceAtEnd(line, MatchAt(<<BeginText, Lit(<<"t","y","p","e">>), Rep("s", 1, FALSE), Rep("w", 1, FALSE)>>,
                               line, 1).end)

\* main.go 300: the alternatives of the group before .*{
jsHeads ==
  {<<Lit(<<"f","u","n","c","t","i","o","n">>), Rep("s", 1, FALSE), Rep("w", 1, FALSE)>>,
   <<Lit(<<"c","o","n","s","t">>), Rep("s", 1, FALSE), Rep("w", 1, FALSE), Rep("s", 0, FALSE), Lit(<<"=">>),
     Rep("s", 0, FALSE), Lit(<<"f","u","n","c","t","i","o","n">>)>>,
   <<Lit(<<"c","l","a","s","s">>), Rep("s", 1, FALSE), Rep("w", 1, FALSE)>>,
   <<Lit(<<"c","o","n","s","t">>), Rep("s", 1, FALSE), Rep("w", 1, FALSE), Rep("s", 0, FALSE), Lit(<<"=">>),
     Rep("s", 0, FALSE), Lit(<<"c","l","a","s","s">>)>>}

\* main.go 300, funcRegex of chunkJSFile
jsFuncRegex(line) ==
  \E i \in 1..(Len(line) + 1), head \in jsHeads : ThenBrace(line, MatchAt(head, line, i).end)

\* main.go 214 and 304: the line opens a block
OpensBlock(language, line) ==
  IF language = <<"g","o">> THEN goFuncRegex(line) \/ goTypeRegex(line) ELSE jsFuncRegex(line)

\* main.go 232 and 322: braceCount when the block opens
OpeningCount(language, line) == IF language = <<"g","o">> THEN 1 ELSE Count(line, "{")

\* main.go 260 and 350: the lines outside a block that make a chunk
goOutsideLines == 50

jsOutsideLines == 30

OutsideLines(language) == IF language = <<"g","o">> THEN goOutsideLines ELSE jsOutsideLines

\* main.go 422-427
generateChunkID(filePath, content) == GenerateID(<<filePath, content>>)

\* main.go 20-27
MainChunk(filePath, startLine, endLine, content, language) ==
  [ID |-> generateChunkID(filePath, content), FilePath |-> filePath, StartLine |-> startLine,
   EndLine |-> endLine, Content |-> content, Language |-> language]

\* the chunk of the pending lines, ending at endLine
BraceFlushTo(s, filePath, endLine, language, nextStart) ==
  [s EXCEPT !.chunks = Append(@, MainChunk(filePath, s.startLine, endLine,
                                           Join(s.currentChunk, NL), language)),
            !.currentChunk = <<>>,
            !.startLine = nextStart]

\* main.go 214-233 and 304-323; i is the index of the line, from 0
BraceOpenBlock(s, filePath, line, i, language) ==
  IF ~s.insideBlock /\ OpensBlock(language, line)
  THEN [(IF Len(s.currentChunk) > 0 THEN BraceFlushTo(s, filePath, i, language, i + 1) ELSE s)
          EXCEPT !.insideBlock = TRUE,
                 !.startLine = i + 1,
                 !.braceCount = OpeningCount(language, line)]
  ELSE s

\* main.go 236 and 326
BraceAppend(s, line) == [s EXCEPT !.currentChunk = Append(@, line)]

\* the block ends: main.go 241-256 and 331-346
BraceCloseBlock(s, filePath, i, language) ==
  IF s.braceCount = 0
  THEN BraceFlushTo([s EXCEPT !.insideBlock = FALSE], filePath, i + 1, language, i + 2)
  ELSE s

\* main.go 239-257 and 329-347
BraceCountLine(s, filePath, line, i, language) ==
  IF s.insideBlock
  THEN BraceCloseBlock([s EXCEPT !.braceCount = @ + Count(line, "{") - Count(line, "}")],
                       filePath, i, language)
  ELSE s

\* main.go 260-273 and 350-363
BraceOutside(s, filePath, i, language) ==
  IF ~s.insideBlock /\ Len(s.currentChunk) >= OutsideLines(language)
  THEN BraceFlushTo(s, filePath, i + 1, language, i + 2)
  ELSE s

\* the body of the loop over the lines
BraceIter(s, filePath, line, i, language) ==
  BraceOutside(BraceCountLine(BraceAppend(BraceOpenBlock(s, filePath, line, i, language), line),
                              filePath, line, i, language),
               filePath, i, language)

\* main.go 277-287 and 367-377
BraceRest(s, filePath, lines, language) ==
  IF Len(s.currentChunk) > 0
  THEN BraceFlushTo(s, filePath, Len(lines), language, s.startLine)
  ELSE s

\* main.go 203-207 and 294-298
BraceLocals ==
  [chunks |-> <<>>, currentChunk |-> <<>>, startLine |-> 1, insideBlock |-> FALSE,
   braceCount |-> 0]

\* processFile up to the call of chunkGoFile or chunkJSFile
BraceEnter(filePath, content) ==
  [pc |-> "brace", filePath |-> filePath, language |-> detectLanguage(filePath),
   lines |-> Split(content, NL), i |-> 0, loc |-> BraceLocals]

BraceLines == {<<"f","u","n","c"," ","f","(",")"," ","{">>, <<"t","y","p","e"," ","T"," ","s","t","r","u","c","t"," ","{">>, <<"f","u","n","c","t","i","o","n"," ","g","(",")"," ","{">>, <<"}">>, <<"x">>}

BracePaths == {<<"a",".","g","o">>, <<"a",".","j","s">>}

MaxBraceLines == 4

InitBrace ==
  /\ \E lines \in LineSeqs(BraceLines, MaxBraceLines), filePath \in BracePaths :
       run = BraceEnter(filePath, Join(lines, NL))
  /\ symbolTable = NewSymbolTable
  /\ first = NoFirst
  /\ ids = NoIds
  /\ registry = <<>>
  /\ found = NoFound
  /\ walk = NoWalk

\* one line of chunkGoFile or chunkJSFile
BraceLine ==
  /\ run.pc = "brace" /\ run.language \in BraceLanguages /\ run.i < Len(run.lines)
  /\ run' = [run EXCEPT !.loc = BraceIter(@, run.filePath, run.lines[run.i + 1], run.i,
                                          run.language),
                        !.i = @ + 1]
  /\ UNCHANGED <<symbolTable, first, ids, registry, found, walk>>

\* the end of chunkGoFile or chunkJSFile
BraceReturn ==
  /\ run.pc = "brace" /\ run.language \in BraceLanguages /\ run.i >= Len(run.lines)
  /\ run' = [run EXCEPT !.loc = BraceRest(@, run.filePath, run.lines, run.language),
                        !.pc = "braceDone"]
  /\ UNCHANGED <<symbolTable, first, ids, registry, found, walk>>

NextBrace == BraceLine \/ BraceReturn

SpecBrace == InitBrace /\ [][NextBrace]_vars

\* the difference of the numbers of "{" and "}" in the lines from..to
RECURSIVE Net(_, _, _)
Net(lines, from, to) ==
  IF from > to THEN 0
  ELSE Count(lines[to], "{") - Count(lines[to], "}") + Net(lines, from, to - 1)

\* the lines from the opening line on at which the count added to the opening count is 0
ClosingLines(lines, open, opening) ==
  {e \in open..Len(lines) : opening + Net(lines, open, e) = 0}

\* the chunk of a block: its first line opens a block
BlockChunk(chunk) ==
  OpensBlock(chunk.Language, run.lines[chunk.StartLine])

\* the chunk ends at the first of the lines, when there is one
EndsAtFirst(chunk, closing) == closing # {} => chunk.EndLine = SetMin(closing)

\* C34: the chunk of a block opened by a definition line in chunkGoFile or
\* chunkJSFile ends at the first line at which the numbers of "{" and "}"
\* counted from the opening line on are equal, and holds no later line.
BlockEndsWhenBalanced ==
  run.pc = "braceDone" =>
    \A k \in 1..Len(run.loc.chunks) :
      BlockChunk(run.loc.chunks[k]) =>
        EndsAtFirst(run.loc.chunks[k],
                    ClosingLines(run.lines, run.loc.chunks[k].StartLine, 0))

\* the chunk of a block ends at the first line at which the braces from the
\* opening line on, added to the opening count, come to 0
BlockEndsWhenCountZero ==
  run.pc = "braceDone" =>
    \A k \in 1..Len(run.loc.chunks) :
      BlockChunk(run.loc.chunks[k]) =>
        /\ EndsAtFirst(run.loc.chunks[k],
                       ClosingLines(run.lines, run.loc.chunks[k].StartLine,
                                    OpeningCount(run.loc.chunks[k].Language,
                                                 run.lines[run.loc.chunks[k].StartLine])))
        /\ ClosingLines(run.lines, run.loc.chunks[k].StartLine,
                        OpeningCount(run.loc.chunks[k].Language,
                                     run.lines[run.loc.chunks[k].StartLine])) = {}
             => run.loc.chunks[k].EndLine = Len(run.lines)

\* func f() { / } / x : the block runs over its closing brace to the end
BlockRunsOn ==
  /\ run.pc = "braceDone"
  /\ run.lines = <<<<"f","u","n","c"," ","f","(",")"," ","{">>, <<"}">>, <<"x">>>>
  /\ Len(run.loc.chunks) = 1
  /\ run.loc.chunks[1].StartLine = 1 /\ run.loc.chunks[1].EndLine = 3

\* func f() { / } / } / x : the block ends at the second closing brace
BlockEndsAtSecondBrace ==
  /\ run.pc = "braceDone"
  /\ run.lines = <<<<"f","u","n","c"," ","f","(",")"," ","{">>, <<"}">>, <<"}">>, <<"x">>>>
  /\ Len(run.loc.chunks) = 2
  /\ run.loc.chunks[1].StartLine = 1 /\ run.loc.chunks[1].EndLine = 3

(***************************************************************************)
(* FindRelatedChunks on tables in which the chunk of T may hold a          *)
(* reference to T itself.                                                  *)
(***************************************************************************)
\* the table with a reference to T in the chunk of T
WithOwnReference(st, chunk) ==
  AddReference(st, <<"T">>, SymbolReference(<<"T">>, chunk.ID, chunk.FilePath, chunk.StartLine))

InitRelatedOwn ==
  /\ \E counts \in SmallCounts \cup LargeCounts, typeKind \in {"type", "interface"} :
       /\ symbolTable \in {TableOf(KindsOf(counts, 1), typeKind),
                           WithOwnReference(TableOf(KindsOf(counts, 1), typeKind),
                                            TypeChunk(MethodNames(KindsOf(counts, 1), 1)))}
       /\ \E id \in CalledOn(symbolTable, counts) :
            found = [pc |-> "call", chunk |-> symbolTable.Chunks[id]]
  /\ run = Idle
  /\ first = NoFirst
  /\ ids = NoIds
  /\ registry = <<>>
  /\ walk = NoWalk

SpecRelatedOwn == InitRelatedOwn /\ [][NextRelated]_vars

\* C35: the ID of the chunk FindRelatedChunks is called on is never in the
\* list it returns, whichever rules fire, also when the chunk holds a
\* reference to a symbol it defines and lies in its own directory.
OwnIDExcluded ==
  found.pc = "found" =>
    /\ \A k \in 1..Len(found.result) : found.result[k] # found.chunk.ID
    /\ found.chunk.ID \notin DOMAIN found.related

\* the chunk of T holds a reference to T and lies in a directory with other
\* chunks; the list returned is not cut
OwnIDExcludedWitness ==
  /\ found.pc = "found"
  /\ found.chunk.Symbols = <<<<"T">>>>
  /\ found.chunk.ID \in ReferenceChunks(symbolTable, <<"T">>)
  /\ found.chunk.ID \in DefinitionChunks(symbolTable, <<"T">>)
  /\ found.chunk.ID \in samePackage(symbolTable, found.chunk)
  /\ Len(found.result) > 0 /\ Len(found.result) < maxRelations

(***************************************************************************)
(* Referential integrity of the symbol table of a pipeline run.            *)
(***************************************************************************)
\* symbol.go 74-77
GetChunk(st, id) ==
  IF id \in DOMAIN st.Chunks THEN [chunk |-> st.Chunks[id], exists |-> TRUE]
  ELSE [chunk |-> <<>>, exists |-> FALSE]

\* the chunk is one of result.Chunks (its RelatedChunks are written later)
InResult(w, chunk) ==
  \E k \in 1..Len(w.result) : [w.result[k] EXCEPT !.RelatedChunks = <<>>] = chunk

\* GetChunk(id) finds a chunk with this ID that is in the result
Resolves(st, w, id) ==
  /\ GetChunk(st, id).exists
  /\ GetChunk(st, id).chunk.ID = id
  /\ InResult(w, GetChunk(st, id).chunk)

\* the chunk IDs the definitions and the references of the table carry
CarriedIDs(st) ==
  UNION ({DefinitionChunks(st, n) : n \in DOMAIN st.Definitions}
         \cup {ReferenceChunks(st, n) : n \in DOMAIN st.References})

\* the first pass is over
PhaseOneOver == walk.pc \in {"relate", "done"}

\* C36: after the first pass of a pipeline run every definition and every
\* reference of the symbol table carries the ID of a chunk stored in the
\* table and present in the result, and every ID FindRelatedChunks returned
\* in the second pass resolves through GetChunk to a chunk of the result.
ReferentialIntegrity ==
  PhaseOneOver =>
    /\ \A id \in CarriedIDs(symbolTable) : Resolves(symbolTable, walk, id)
    /\ \A k \in 1..walk.i :
         \A j \in 1..Len(walk.result[k].RelatedChunks) :
           Resolves(symbolTable, walk, walk.result[k].RelatedChunks[j])

\* a run that ended with definitions, references and related chunks
ReferentialIntegrityWitness ==
  /\ walk.pc = "done" /\ walk.i = Len(walk.result) /\ walk.i > 0
  /\ \E n \in DOMAIN symbolTable.References : ReferenceChunks(symbolTable, n) # {}
  /\ \E n \in DOMAIN symbolTable.Definitions : DefinitionChunks(symbolTable, n) # {}
  /\ \E k \in 1..walk.i : Len(walk.result[k].RelatedChunks) > 0

(***************************************************************************)
(* Pipeline runs over a tree with repeated text:                           *)
(*   Dockerfile (RUN x / RUN x), a (bx), ab (x)                            *)
(***************************************************************************)
RepeatTree ==
  <<Entry(<<>>, TRUE, <<>>),
    Entry(<<"D","o","c","k","e","r","f","i","l","e">>, FALSE, <<"R","U","N"," ","x","\n","R","U","N"," ","x">>),
    Entry(<<"a">>, FALSE, <<"b","x">>),
    Entry(<<"a","b">>, FALSE, <<"x">>)>>

InitRepeat ==
  /\ \E ignored \in AtMost(Files(RepeatTree), MaxIgnored),
        unreadable \in AtMost(Files(RepeatTree), MaxUnreadable),
        failing \in AtMost(Entries(RepeatTree), MaxWalkErrors),
        format \in {FormatVectorReady, FormatJSON} :
       walk = EnterDirectory(RootA, Flagged(RepeatTree, ignored, unreadable, failing), format,
                             PipelineOptions, 1)
  /\ registry \in Registries
  /\ symbolTable = NewSymbolTable
  /\ run = Idle
  /\ first = NoFirst
  /\ ids = NoIds
  /\ found = NoFound

SpecRepeat == InitRepeat /\ [][NextPipeline]_vars

\* the two chunks differ in their file or in their lines
Distinct(a, b) ==
  a.FilePath # b.FilePath \/ a.StartLine # b.StartLine \/ a.EndLine # b.EndLine

\* C37: two distinct chunks of the result of a run (of different files or of
\* different lines) never have the same ID, so the symbol table holds one
\* entry for each chunk of the result and GetChunk(id) returns the chunk
\* with the lines it was returned with.
ChunkIDsUnique ==
  walk.pc # "idle" =>
    /\ \A j, k \in 1..Len(walk.result) :
         Distinct(walk.result[j], walk.result[k]) => walk.result[j].ID # walk.result[k].ID
    /\ Cardinality(DOMAIN symbolTable.Chunks) = Len(walk.result)
    /\ \A k \in 1..Len(walk.result) :
         /\ GetChunk(symbolTable, walk.result[k].ID).exists
         /\ ~Distinct(GetChunk(symbolTable, walk.result[k].ID).chunk, walk.result[k])

\* two chunks of the result have the same ID only if the path followed by
\* the content is the same for both, and the table holds the later of them
ChunkIDsUniqueUpToBytes ==
  walk.pc # "idle" =>
    /\ \A j, k \in 1..Len(walk.result) :
         walk.result[j].ID = walk.result[k].ID
           <=> walk.result[j].FilePath \o walk.result[j].Content
                 = walk.result[k].FilePath \o walk.result[k].Content
    /\ \A k \in 1..Len(walk.result) :
         (\A j \in (k + 1)..Len(walk.result) : walk.result[j].ID # walk.result[k].ID)
           => ~Distinct(GetChunk(symbolTable, walk.result[k].ID).chunk, walk.result[k])

\* the two instructions RUN x of the Dockerfile are chunks of one ID, and
\* the table holds the chunk of line 2 only
SameIDInOneFile ==
  /\ walk.pc = "done"
  /\ \E j, k \in 1..Len(walk.result) :
       /\ walk.result[j].FilePath = walk.result[k].FilePath
       /\ walk.result[j].StartLine = 1 /\ walk.result[k].StartLine = 2
       /\ walk.result[j].ID = walk.result[k].ID
       /\ GetChunk(symbolTable, walk.result[j].ID).chunk.StartLine = 2

\* the chunks of the files a and ab have one ID
SameIDInTwoFiles ==
  /\ walk.pc = "done"
  /\ \E j, k \in 1..Len(walk.result) :
       /\ walk.result[j].FilePath # walk.result[k].FilePath
       /\ walk.result[j].ID = walk.result[k].ID
       /\ Cardinality(DOMAIN symbolTable.Chunks) < Len(walk.result)

(***************************************************************************)
(* Pipeline runs over two Go files of two directories, one defining f and  *)
(* one calling it, met by the walk in either order:                        *)
(*   d/a.go, e/b.go                                                        *)
(***************************************************************************)
OrderTree(firstSource, secondSource) ==
  <<Entry(<<>>, TRUE, <<>>),
    Entry(<<"d">>, TRUE, <<>>),
    Entry(<<"d","/","a",".","g","o">>, FALSE, firstSource),
    Entry(<<"e">>, TRUE, <<>>),
    Entry(<<"e","/","b",".","g","o">>, FALSE, secondSource)>>

OrderTrees == {OrderTree(goSourceFunc, goSourceUse), OrderTree(goSourceUse, goSourceFunc)}

InitOrder ==
  /\ \E tree \in OrderTrees, format \in {FormatVectorReady, FormatJSON} :
       \E ignored \in AtMost(Files(tree), MaxIgnored),
          unreadable \in AtMost(Files(tree), MaxUnreadable),
          failing \in AtMost(Entries(tree), MaxWalkErrors) :
         walk = EnterDirectory(RootA, Flagged(tree, ignored, unreadable, failing), format,
                               PipelineOptions, 1)
  /\ registry \in Registries
  /\ symbolTable = NewSymbolTable
  /\ run = Idle
  /\ first = NoFirst
  /\ ids = NoIds
  /\ found = NoFound

SpecOrder == InitOrder /\ [][NextPipeline]_vars

\* the content of the file of the walk at path
ContentAt(w, path) ==
  (CHOOSE e \in SeqToSet(w.entries) : EntryPath(w.rootDir, e) = path).content

\* the files the Go chunker parsed, as positions of walk.handled
ParsedGoFiles(w) ==
  {h \in 1..Len(w.handled) :
     w.handled[h].chunker.kind = "go" /\ ~ParseFile(ContentAt(w, w.handled[h].path)).err}

\* the identifiers of the file that name a symbol of the table and stand on a
\* line of one of the file's chunks
Uses(st, w, path) ==
  {node \in SeqToSet(ParseFile(ContentAt(w, path)).file.Nodes) :
     /\ node.Ident # <<>>
     /\ ~(isBasicType(node.Ident) \/ isKeyword(node.Ident))
     /\ node.Ident \in DOMAIN st.Definitions
     /\ \E k \in 1..Len(w.result) :
          /\ w.result[k].FilePath = path
          /\ node.Line >= w.result[k].StartLine /\ node.Line <= w.result[k].EndLine}

\* a reference of the table records the identifier in a chunk of the file
Recorded(st, w, path, node) ==
  \E ref \in SeqToSet(MapGet(st.References, node.Ident)) :
    /\ ref.Line = node.Line
    /\ \E k \in 1..Len(w.result) :
         w.result[k].FilePath = path /\ w.result[k].ID = ref.ChunkID

\* the symbol has a definition in a file handled no later than position h
DefinedBy(st, w, h, name) ==
  \E def \in SeqToSet(MapGet(st.Definitions, name)) :
    \E j \in 1..h : w.handled[j].path = def.FilePath

\* C38: the references of a run do not depend on the order in which the
\* first pass meets the files: a use in one file of a symbol defined in
\* another is recorded whether the defining file comes before or after it,
\* and in the second pass the chunk of the use and the chunk of the
\* definition are related in either order.
UsesRecordedInAnyOrder ==
  PhaseOneOver =>
    \A h \in ParsedGoFiles(walk) :
      \A node \in Uses(symbolTable, walk, walk.handled[h].path) :
        Recorded(symbolTable, walk, walk.handled[h].path, node)

\* the use of a symbol is recorded when its definition is in the same file
\* or in a file the walk met before
UsesRecordedAfterDefinition ==
  PhaseOneOver =>
    \A h \in ParsedGoFiles(walk) :
      \A node \in Uses(symbolTable, walk, walk.handled[h].path) :
        DefinedBy(symbolTable, walk, h, node.Ident)
          => Recorded(symbolTable, walk, walk.handled[h].path, node)

\* the chunk of g in the result, and the chunk of f
ChunkOfSymbol(w, symbol) == {k \in 1..Len(w.result) : w.result[k].Symbols = <<symbol>>}

\* d/a.go calls f and e/b.go defines it: no reference to f but that of its
\* own declaration, and the chunk of g is not related to the chunk of f
UseBeforeDefinition ==
  /\ walk.pc = "done" /\ walk.format = FormatVectorReady
  /\ walk.entries[3].content = goSourceUse /\ Len(walk.handled) = 2
  /\ \A h \in 1..2 : walk.handled[h].chunker.kind = "go"
  /\ Len(MapGet(symbolTable.References, <<"f">>)) = 1
  /\ \A g \in ChunkOfSymbol(walk, <<"g">>), f \in ChunkOfSymbol(walk, <<"f">>) :
       walk.result[f].ID \notin SeqToSet(walk.result[g].RelatedChunks)

\* d/a.go defines f and e/b.go calls it: the call is recorded and the chunk
\* of g is related to the chunk of f
UseAfterDefinition ==
  /\ walk.pc = "done" /\ walk.format = FormatVectorReady
  /\ walk.entries[3].content = goSourceFunc /\ Len(walk.handled) = 2
  /\ \A h \in 1..2 : walk.handled[h].chunker.kind = "go"
  /\ Len(MapGet(symbolTable.References, <<"f">>)) = 2
  /\ \E g \in ChunkOfSymbol(walk, <<"g">>), f \in ChunkOfSymbol(walk, <<"f">>) :
       walk.result[f].ID \in SeqToSet(walk.result[g].RelatedChunks)

(***************************************************************************)
(* The kinds of the definitions of a pipeline run.                         *)
(***************************************************************************)
\* the kinds the chunkers of runChunk register
RegisteredKinds == {"function", "type", "const", "var", "instruction", "generic"}

\* the kinds of the definitions of the table
DefinitionKinds(st) ==
  {def.Type : def \in UNION {SeqToSet(st.Definitions[n]) : n \in DOMAIN st.Definitions}}

\* C39: in a pipeline run every definition of the symbol table is of kind
\* function, type, const, var, instruction or generic; none is of kind
\* "interface", so the interface rule of FindRelatedChunks gives no candidate
\* for any chunk of the result.
NoInterfaceKind ==
  walk.pc # "idle" =>
    /\ DefinitionKinds(symbolTable) \subseteq RegisteredKinds
    /\ \A k \in 1..Len(walk.result) :
         /\ ~definesInterface(symbolTable, walk.result[k])
         /\ implementers(symbolTable, walk.result[k]) = {}

\* a run that ended with the interface type I, a shell function and an
\* instruction registered, I with the kind "type", and related chunks written
NoInterfaceKindWitness ==
  /\ walk.pc = "done" /\ walk.format = FormatVectorReady
  /\ ~ParseFile(walk.entries[4].content).err
  /\ \E d \in 1..Len(ParseFile(walk.entries[4].content).file.Decls) :
       ParseFile(walk.entries[4].content).file.Decls[d].Interface
  /\ {"function", "type", "instruction"} \subseteq DefinitionKinds(symbolTable)
  /\ <<"I">> \in DOMAIN symbolTable.Definitions
  /\ \A n \in 1..Len(symbolTable.Definitions[<<"I">>]) :
       symbolTable.Definitions[<<"I">>][n].Type = "type"
  /\ \E k \in 1..Len(walk.result) :
       walk.result[k].Symbols = <<<<"I">>>> /\ Len(walk.result[k].RelatedChunks) > 0

(***************************************************************************)
(* The line-based chunkers on inputs with empty lines.                     *)
(***************************************************************************)
MaxRoundLines == 3

RoundInputs ==
  ({"shell"} \X {ShellPath} \X LineSeqs(ShellVocabulary \cup {<<>>}, MaxRoundLines))
  \cup ({"dockerfile"} \X {DockerPath} \X LineSeqs(DockerVocabulary, MaxRoundLines))
  \cup ({"generic"} \X {GenericPath} \X LineSeqs(GenericVocabulary \cup {<<>>}, MaxRoundLines))

InitRound ==
  /\ \E in \in RoundInputs, options \in Options :
       run = Enter(in[1], in[2], Join(in[3], NL), options, 1)
  /\ symbolTable = NewSymbolTable
  /\ first = NoFirst
  /\ ids = NoIds
  /\ registry = <<>>
  /\ found = NoFound
  /\ walk = NoWalk

SpecRound == InitRound /\ [][NextChunk]_vars

\* the contents of the chunks, in the order of the chunks
Contents(chunks) == [k \in 1..Len(chunks) |-> chunks[k].Content]

\* the content of the chunk is the lines StartLine..EndLine of the input
ContentOfLines(chunk, lines) ==
  /\ chunk.StartLine >= 1 /\ chunk.EndLine <= Len(lines)
  /\ chunk.Content = Join(SubSeq(lines, chunk.StartLine, chunk.EndLine), NL)
  /\ Len(Split(chunk.Content, NL)) = chunk.EndLine - chunk.StartLine + 1

\* C40: for the shell, Dockerfile and generic chunkers and MaxChunkSize >= 1
\* the content of every chunk returned is the lines StartLine..EndLine of the
\* input joined by newlines, and the contents of the chunks joined by
\* newlines in the order returned are the input.
ContentRoundTrip ==
  (run.pc = "done" /\ run.chunker \in {"shell", "dockerfile", "generic"}
     /\ run.options.MaxChunkSize >= 1) =>
    /\ \A k \in 1..Len(run.loc.chunks) : ContentOfLines(run.loc.chunks[k], run.lines)
    /\ Join(Contents(run.loc.chunks), NL) = run.content

\* a script of three lines, the second empty and the third indented,
\* returned in more than one chunk
ContentRoundTripWitness ==
  /\ Returned("shell") /\ run.options.MaxChunkSize >= 1
  /\ Len(run.lines) = 3 /\ run.lines[2] = <<>> /\ run.lines[3] = <<" ","}"," ","#","e">>
  /\ Len(run.loc.chunks) >= 2

====
